---- MODULE Spec2Model ----
(***************************************************************************)
(* Model of the auction tools: the parser (src/mod6/parser.py), the price  *)
(* recommendation of the web application (src/mod6/app.py) and the         *)
(* analyzer (src/mod6/recommend_fixed.py).                                 *)
(*                                                                         *)
(* Five state machines share this module:                                  *)
(*   SpecScan    - stream_messages_from_file reading one document, one     *)
(*                 character per step;                                     *)
(*   SpecExtract - extract_auction_data applied to one embed;              *)
(*   SpecIngest  - process_file run twice over one message stream against  *)
(*                 the auctions table;                                     *)
(*   SpecRecommend - get_price_recommendation (src/mod6/app.py) applied to *)
(*                 one list of prices;                                     *)
(*   SpecAnalyzer - AuctionAnalyzer.recommend_price applied to one         *)
(*                 auctions table, one filters dict and one strategy.      *)
(*                                                                         *)
(* Text is a sequence of characters, each character a one-character        *)
(* string (non-ASCII characters are named by their code point).  JSON      *)
(* and Python values are tagged tuples: <<"null">> (None), <<"bool", b>>,  *)
(* <<"int", n>>, <<"float", i, f>>, <<"str", text>>, <<"list", seq>>,      *)
(* <<"dict", pairs>> with pairs a sequence of <<key text, value>>.         *)
(***************************************************************************)
EXTENDS Integers, Sequences, FiniteSets, TLC

VARIABLES
    \* ---- stream_messages_from_file ----
    doc_elems,          \* the array elements the document was built from
    doc_shape,          \* which prefix / marker / tail surrounds them
    file_pos,           \* characters of f already read
    chunk,              \* the chunk being iterated
    chunk_i,            \* index in chunk of the next character
    obj_buffer,
    brace_level,
    in_messages_array,
    found_start,
    yielded,            \* the objects yielded so far, in order
    scan_pc,            \* "idle" | "read" | "scan" | "done"
    \* ---- extract_auction_data ----
    embed,              \* the argument
    result,             \* the value returned
    extract_pc,         \* "idle" | "call" | "returned"
    \* ---- process_file ----
    stream,             \* the messages stream_messages_from_file yields
    batch_size,
    run,                \* 1 or 2: which call of process_file this is
    msg_i,              \* index in stream of the next message
    batch,
    inserted_count,
    table,              \* the auctions table as the connection sees it
    ingest_pc,          \* "idle" | "loop" | "done" | "crashed"
    \* ---- history of the current call, kept for the properties ----
    accepted_log,       \* the records extract_auction_data returned, in order
    batch_writes,       \* the executemany calls: their records and outcome
    storage_failed,     \* some executemany raised, in this call or the first
    run_start_table,    \* the table when the current call began
    first_run_table,    \* the table the first call left
    rerun_same,         \* the second call reads the document of the first
    \* ---- get_price_recommendation ----
    chron_prices,       \* the argument
    recommendation,     \* the value returned, or the exception raised
    price_pc,           \* "idle" | "call" | "returned" | "raised"
    \* ---- AuctionAnalyzer.recommend_price ----
    db_rows,            \* the rows of the auctions table of self.db_path
    filters,            \* the argument
    strategy,           \* the argument
    analysis,           \* the value returned, or the exception raised
    analyzer_pc         \* "idle" | "call" | "returned" | "raised"

scan_vars == <<doc_elems, doc_shape, file_pos, chunk, chunk_i, obj_buffer,
               brace_level, in_messages_array, found_start, yielded, scan_pc>>

extract_vars == <<embed, result, extract_pc>>

ingest_vars ==
    <<stream, batch_size, run, msg_i, batch, inserted_count, table, ingest_pc,
      accepted_log, batch_writes, storage_failed, run_start_table,
      first_run_table, rerun_same>>

price_vars == <<chron_prices, recommendation, price_pc>>

analyzer_vars == <<db_rows, filters, strategy, analysis, analyzer_pc>>

vars == <<scan_vars, extract_vars, ingest_vars, price_vars, analyzer_vars>>

-----------------------------------------------------------------------------
(* Bounds of the model *)

MaxElems == 3

(* f.read(128 * 1024) *)
ChunkSize == 131072

-----------------------------------------------------------------------------
(* Characters and text helpers *)

Digits == {"0", "1", "2", "3", "4", "5", "6", "7", "8", "9"}

Whitespace == {" ", "\n", "\t", "\r"}

Min(a, b) == IF a <= b THEN a ELSE b

Max(a, b) == IF a >= b THEN a ELSE b

(* s[i..] begins with pat *)
MatchAt(pat, s, i) ==
    /\ i >= 1
    /\ i + Len(pat) - 1 <= Len(s)
    /\ \A k \in 1..Len(pat) : s[i + k - 1] = pat[k]

(* Python's  pat in s *)
Contains(pat, s) == \E i \in 1..(Len(s) + 1) : MatchAt(pat, s, i)

(* Python's  s[-n:] *)
LastN(s, n) == IF Len(s) > n THEN SubSeq(s, Len(s) - n + 1, Len(s)) ELSE s

RECURSIVE Concat(_)
Concat(ss) == IF ss = <<>> THEN <<>> ELSE Head(ss) \o Concat(Tail(ss))

DigitValue(c) == CHOOSE n \in 0..9 : <<"0", "1", "2", "3", "4", "5", "6", "7", "8", "9">>[n + 1] = c

RECURSIVE TextToInt(_)
(* int(s) for a text of digits *)
TextToInt(s) ==
    IF s = <<>> THEN 0
    ELSE 10 * TextToInt(SubSeq(s, 1, Len(s) - 1)) + DigitValue(s[Len(s)])

-----------------------------------------------------------------------------
(* json.loads on one buffer: a recursive-descent reading of the JSON       *)
(* grammar for objects, strings and integers.  The documents of the model  *)
(* hold no backslash, control character, array, literal or fraction inside *)
(* an element, so those productions are not needed.                        *)

JsonFail == [ok |-> FALSE, next |-> 0, val |-> <<"null">>]

JsonOk(n, v) == [ok |-> TRUE, next |-> n, val |-> v]

RECURSIVE SkipWs(_, _)
SkipWs(s, i) ==
    IF i <= Len(s) /\ s[i] \in Whitespace THEN SkipWs(s, i + 1) ELSE i

RECURSIVE DigitRunEnd(_, _)
(* index just after the run of digits that starts at i *)
DigitRunEnd(s, i) ==
    IF i <= Len(s) /\ s[i] \in Digits THEN DigitRunEnd(s, i + 1) ELSE i

RECURSIVE QuoteAt(_, _)
(* index of the first quote at or after i, Len(s)+1 when there is none *)
QuoteAt(s, i) ==
    IF i > Len(s) \/ s[i] = "\"" THEN i ELSE QuoteAt(s, i + 1)

(* s[i] is the opening quote *)
ParseString(s, i) ==
    LET j == QuoteAt(s, i + 1)
    IN  IF j > Len(s) THEN JsonFail
        ELSE JsonOk(j + 1, <<"str", SubSeq(s, i + 1, j - 1)>>)

(* s[i] is a digit; JSON allows no leading zero *)
ParseNumber(s, i) ==
    LET j == IF s[i] = "0" THEN i + 1 ELSE DigitRunEnd(s, i)
    IN  JsonOk(j, <<"int", TextToInt(SubSeq(s, i, j - 1))>>)

RECURSIVE PutKey(_, _, _)
(* dict assignment: a repeated key keeps its place and takes the new value *)
PutKey(pairs, k, v) ==
    IF pairs = <<>> THEN << <<k, v>> >>
    ELSE IF Head(pairs)[1] = k THEN << <<k, v>> >> \o Tail(pairs)
    ELSE <<Head(pairs)>> \o PutKey(Tail(pairs), k, v)

RECURSIVE ParseValue(_, _)
RECURSIVE ParseMembers(_, _, _)

(* i is just after "{" or after a ","; pairs are the members read so far *)
ParseMembers(s, i0, pairs) ==
    LET i == SkipWs(s, i0)
    IN  IF i > Len(s) \/ s[i] # "\"" THEN JsonFail
        ELSE LET k == ParseString(s, i)
             IN  IF ~k.ok THEN JsonFail
                 ELSE LET c == SkipWs(s, k.next)
                      IN  IF c > Len(s) \/ s[c] # ":" THEN JsonFail
                          ELSE LET v == ParseValue(s, c + 1)
                               IN  IF ~v.ok THEN JsonFail
                                   ELSE LET e == SkipWs(s, v.next)
                                            ps == PutKey(pairs, k.val[2], v.val)
                                        IN  IF e > Len(s) THEN JsonFail
                                            ELSE IF s[e] = "}"
                                                 THEN JsonOk(e + 1, <<"dict", ps>>)
                                            ELSE IF s[e] = ","
                                                 THEN ParseMembers(s, e + 1, ps)
                                            ELSE JsonFail

ParseValue(s, i0) ==
    LET i == SkipWs(s, i0)
    IN  IF i > Len(s) THEN JsonFail
        ELSE IF s[i] = "{"
             THEN LET j == SkipWs(s, i + 1)
                  IN  IF j <= Len(s) /\ s[j] = "}"
                      THEN JsonOk(j + 1, <<"dict", <<>> >>)
                      ELSE ParseMembers(s, i + 1, <<>>)
        ELSE IF s[i] = "\"" THEN ParseString(s, i)
        ELSE IF s[i] \in Digits THEN ParseNumber(s, i)
        ELSE JsonFail

(* json.loads(buf): a value, then only whitespace ("Extra data" otherwise) *)
json_loads(buf) ==
    LET v == ParseValue(buf, 1)
    IN  IF v.ok /\ SkipWs(buf, v.next) > Len(buf) THEN v ELSE JsonFail

-----------------------------------------------------------------------------
(* The documents read by the scanner *)

Marker == <<"\"", "m", "e", "s", "s", "a", "g", "e", "s", "\"", ":", " ", "[">>

(* the same key written without the space: not the marker *)
MarkerNoSpace == <<"\"", "m", "e", "s", "s", "a", "g", "e", "s", "\"", ":", "[">>

ElemSimple == <<"{", "\"", "a", "\"", ":", "1", "}">>

ElemNested == <<"{", "\"", "a", "\"", ":", "{", "\"", "b", "\"", ":", "2", "}", "}">>

ElemCloseInString == <<"{", "\"", "s", "\"", ":", "\"", "}", "\"", "}">>

ElemOpenInString == <<"{", "\"", "s", "\"", ":", "\"", "{", "\"", "}">>

ElemBadValue == <<"{", "\"", "a", "\"", ":", "}">>

ElemTruncated == <<"{", "\"", "a", "\"", ":", "1">>

ElemStrayClose == <<"}">>

ElemTexts == {ElemSimple, ElemNested, ElemCloseInString, ElemOpenInString,
              ElemBadValue, ElemTruncated, ElemStrayClose}

PrefixShort == <<"{">>

(* longer than the 21-character window, with an object before the marker *)
PrefixLong == <<"{", "\"", "g", "u", "i", "l", "d", "\"", ":", " ", "{", "\"", "i", "d", "\"", ":", " ", "7", "}", ",", " ", "\"", "n", "\"", ":", " ", "1", "2", ",", " ">>

TailPlain == <<"]", "}">>

(* an object after the array's closing bracket *)
TailObject == <<"]", ",", " ", "\"", "x", "\"", ":", " ", "{", "\"", "z", "\"", ":", "1", "}", "}">>

(* a file that ends inside the array: nothing follows the last element *)
TailCutOff == <<>>

Shapes == {"plain", "prefix_object", "tail_object", "no_marker", "cut_off"}

ShapePrefix(shape) == IF shape = "prefix_object" THEN PrefixLong ELSE PrefixShort

ShapeMarker(shape) == IF shape = "no_marker" THEN MarkerNoSpace ELSE Marker

ShapeTail(shape) ==
    IF shape = "tail_object" THEN TailObject
    ELSE IF shape = "cut_off" THEN TailCutOff
    ELSE TailPlain

RECURSIVE JoinElems(_)
JoinElems(es) ==
    IF es = <<>> THEN <<>>
    ELSE IF Len(es) = 1 THEN Head(es)
    ELSE Head(es) \o <<",">> \o JoinElems(Tail(es))

BuildDoc(shape, es) ==
    ShapePrefix(shape) \o ShapeMarker(shape) \o JoinElems(es) \o ShapeTail(shape)

Doc == BuildDoc(doc_shape, doc_elems)

SeqsUpTo(S, n) == UNION {[1..k -> S] : k \in 0..n}

-----------------------------------------------------------------------------
(* stream_messages_from_file *)

(* temp = (obj_buffer[-20:] if len(obj_buffer) > 20 else obj_buffer) + ch *)
WindowTemp(buf, ch) == Append(LastN(buf, 20), ch)

(* mutant: every opening brace restarts the buffer *)
OpenBraceBufferAlwaysRestart(buf, level, ch) == <<ch>>

(* if ch == "{": the buffer restarts at depth 0 and grows inside an object *)
OpenBraceBuffer(buf, level, ch) ==
    IF level = 0 THEN <<ch>> ELSE Append(buf, ch)

(* the text ends between the two quotes of a string: it holds an odd *)
(* number of quote characters                                       *)
InsideString(buf) ==
    Cardinality({i \in 1..Len(buf) : buf[i] = "\""}) % 2 = 1

(* a variant that tells a brace inside a quoted string from a structural *)
(* one and leaves the depth alone                                        *)
OpenBraceLevelOutsideStrings(level, buf) ==
    IF InsideString(buf) THEN level ELSE level + 1

(* brace_level += 1, whatever surrounds the brace *)
OpenBraceLevel(level, buf) == level + 1

(* a variant that lets a closing brace lower the depth below 0 *)
CloseBraceCountsAlways(level) == TRUE

(* elif ch == "}": if brace_level > 0 *)
CloseBraceCounts(level) == level > 0

(* mutant: the fragment is yielded whether or not it parsed *)
YieldParsedUnchecked(out, buf) == Append(out, json_loads(buf).val)

(* try: yield json.loads(obj_buffer) / except JSONDecodeError: log, skip *)
YieldParsed(out, buf) ==
    LET r == json_loads(buf)
    IN  IF r.ok THEN Append(out, r.val) ELSE out

(* a variant that yields what is left in the buffer at the end of input *)
EndOfInputYieldsBuffer(out, buf) ==
    IF buf = <<>> THEN out ELSE Append(out, buf)

(* if not chunk: break -- the loop ends and the function returns; what is  *)
(* left in obj_buffer is dropped with it                                   *)
EndOfInput(out, buf) == out

ScanIdle ==
    /\ doc_elems = <<>>
    /\ doc_shape = "plain"
    /\ file_pos = 0
    /\ chunk = <<>>
    /\ chunk_i = 1
    /\ obj_buffer = <<>>
    /\ brace_level = 0
    /\ in_messages_array = FALSE
    /\ found_start = FALSE
    /\ yielded = <<>>
    /\ scan_pc = "idle"

ExtractIdle ==
    /\ embed = <<"null">>
    /\ result = <<"null">>
    /\ extract_pc = "idle"

(* a new database file after executescript(AUCTIONS_SCHEMA): no rows, and  *)
(* seq is the largest id the AUTOINCREMENT key has given out               *)
EmptyTable == [rows |-> {}, seq |-> 0]

IngestIdle ==
    /\ stream = <<>>
    /\ batch_size = 1
    /\ run = 1
    /\ msg_i = 1
    /\ batch = <<>>
    /\ inserted_count = 0
    /\ table = EmptyTable
    /\ ingest_pc = "idle"
    /\ accepted_log = <<>>
    /\ batch_writes = <<>>
    /\ storage_failed = FALSE
    /\ run_start_table = EmptyTable
    /\ first_run_table = EmptyTable
    /\ rerun_same = FALSE

PriceIdle ==
    /\ chron_prices = <<>>
    /\ recommendation = <<"null">>
    /\ price_pc = "idle"

AnalyzerIdle ==
    /\ db_rows = <<>>
    /\ filters = <<"null">>
    /\ strategy = ""
    /\ analysis = <<"null">>
    /\ analyzer_pc = "idle"

ScanInit ==
    /\ doc_elems \in SeqsUpTo(ElemTexts, MaxElems)
    /\ doc_shape \in Shapes
    /\ file_pos = 0
    /\ chunk = <<>>
    /\ chunk_i = 1
    /\ obj_buffer = <<>>
    /\ brace_level = 0
    /\ in_messages_array = FALSE
    /\ found_start = FALSE
    /\ yielded = <<>>
    /\ scan_pc = "read"
    /\ ExtractIdle
    /\ IngestIdle
    /\ PriceIdle
    /\ AnalyzerIdle

(* chunk = f.read(128 * 1024); if not chunk: break *)
ReadChunk ==
    /\ scan_pc = "read"
    /\ LET n == Min(ChunkSize, Len(Doc) - file_pos)
           c == SubSeq(Doc, file_pos + 1, file_pos + n)
       IN  /\ chunk' = c
           /\ file_pos' = file_pos + n
           /\ scan_pc' = IF c = <<>> THEN "done" ELSE "scan"
           /\ yielded' = IF c = <<>> THEN EndOfInput(yielded, obj_buffer)
                          ELSE yielded
    /\ chunk_i' = 1
    /\ UNCHANGED <<doc_elems, doc_shape, obj_buffer, brace_level,
                   in_messages_array, found_start>>
    /\ UNCHANGED <<extract_vars, ingest_vars, price_vars, analyzer_vars>>

(* the end of one iteration of  for ch in chunk *)
Advance ==
    /\ chunk_i' = chunk_i + 1
    /\ scan_pc' = IF chunk_i = Len(chunk) THEN "read" ELSE "scan"
    /\ UNCHANGED <<doc_elems, doc_shape, file_pos, chunk>>
    /\ UNCHANGED <<extract_vars, ingest_vars, price_vars, analyzer_vars>>

Ch == chunk[chunk_i]

(* if not in_messages_array: ... continue *)
SeekMarker ==
    /\ scan_pc = "scan"
    /\ ~in_messages_array
    /\ LET temp == WindowTemp(obj_buffer, Ch)
       IN  IF Contains(Marker, temp) /\ ~found_start
           THEN /\ in_messages_array' = TRUE
                /\ found_start' = TRUE
                /\ obj_buffer' = <<>>
           ELSE /\ obj_buffer' = temp
                /\ UNCHANGED <<in_messages_array, found_start>>
    /\ UNCHANGED <<brace_level, yielded>>
    /\ Advance

(* if ch == "{" *)
OpenBrace ==
    /\ scan_pc = "scan"
    /\ in_messages_array
    /\ Ch = "{"
    /\ obj_buffer' = OpenBraceBuffer(obj_buffer, brace_level, Ch)
    /\ brace_level' = OpenBraceLevel(brace_level, obj_buffer)
    /\ UNCHANGED <<in_messages_array, found_start, yielded>>
    /\ Advance

(* elif ch == "}" *)
CloseBrace ==
    /\ scan_pc = "scan"
    /\ in_messages_array
    /\ Ch = "}"
    /\ IF CloseBraceCounts(brace_level)
       THEN LET buf == Append(obj_buffer, Ch)
            IN  /\ brace_level' = brace_level - 1
                /\ IF brace_level - 1 = 0 /\ buf # <<>>
                   THEN /\ yielded' = YieldParsed(yielded, buf)
                        /\ obj_buffer' = <<>>
                   ELSE /\ obj_buffer' = buf
                        /\ UNCHANGED yielded
       ELSE UNCHANGED <<brace_level, obj_buffer, yielded>>
    /\ UNCHANGED <<in_messages_array, found_start>>
    /\ Advance

(* elif brace_level > 0: obj_buffer += ch  (any other character) *)
OtherChar ==
    /\ scan_pc = "scan"
    /\ in_messages_array
    /\ Ch \notin {"{", "}"}
    /\ obj_buffer' = IF brace_level > 0 THEN Append(obj_buffer, Ch) ELSE obj_buffer
    /\ UNCHANGED <<brace_level, in_messages_array, found_start, yielded>>
    /\ Advance

ScanNext == ReadChunk \/ SeekMarker \/ OpenBrace \/ CloseBrace \/ OtherChar

SpecScan == ScanInit /\ [][ScanNext]_vars

(* the consumer's for loop (process_file) asks the generator for the next  *)
(* message until it is exhausted, and f.read and every branch of the loop  *)
(* body return: a step that is possible is eventually taken                *)
SpecScanFair ==
    SpecScan /\ WF_vars(ReadChunk) /\ WF_chunk_i(scan_pc = "scan" /\ Advance)

-----------------------------------------------------------------------------
(* Claims about stream_messages_from_file *)

ScanDone == scan_pc = "done"

(* the document is the marker, the array and its closing text: no object *)
(* follows the array's closing bracket                                    *)
OnlyArrayDocument == doc_shape \in {"plain", "prefix_object"}

WellFormed(e) == json_loads(e).ok

ParsedElems(es) == [i \in 1..Len(es) |-> json_loads(es[i]).val]

RECURSIVE BraceInStringFrom(_, _, _)
BraceInStringFrom(s, i, in_string) ==
    IF i > Len(s) THEN FALSE
    ELSE IF s[i] = "\"" THEN BraceInStringFrom(s, i + 1, ~in_string)
    ELSE IF in_string /\ s[i] \in {"{", "}"} THEN TRUE
    ELSE BraceInStringFrom(s, i + 1, in_string)

(* a brace character occurs between two quotes of e *)
BraceInString(e) == BraceInStringFrom(e, 1, FALSE)

RECURSIVE UnclosedFrom(_, _, _)
UnclosedFrom(s, i, open) ==
    IF i > Len(s) THEN open
    ELSE IF s[i] = "{" THEN UnclosedFrom(s, i + 1, open + 1)
    ELSE IF s[i] = "}" THEN UnclosedFrom(s, i + 1, Max(0, open - 1))
    ELSE UnclosedFrom(s, i + 1, open)

(* the number of opening braces of e that no later brace of e closes *)
UnclosedBraces(e) == UnclosedFrom(e, 1, 0)

AllWellFormed == \A i \in 1..Len(doc_elems) : WellFormed(doc_elems[i])

NoBraceInStrings == \A i \in 1..Len(doc_elems) : ~BraceInString(doc_elems[i])

OneMalformed ==
    Cardinality({i \in 1..Len(doc_elems) : ~WellFormed(doc_elems[i])}) = 1

-----------------------------------------------------------------------------
(* Python values and str operations used by extract_auction_data *)

PyNone == <<"null">>

PyBool(b) == <<"bool", b>>

PyInt(n) == <<"int", n>>

(* a float read from decimal text: its integer part and its fraction      *)
(* digits without trailing zeros                                           *)
PyFloat(i, f) == <<"float", i, f>>

PyStr(t) == <<"str", t>>

PyList(xs) == <<"list", xs>>

PyDict(pairs) == <<"dict", pairs>>

IsStr(v) == v[1] = "str"

IsDict(v) == v[1] = "dict"

IsList(v) == v[1] = "list"

(* bool(v): None, False, 0, "", [] and {} are falsy *)
Truthy(v) ==
    IF v[1] = "null" THEN FALSE
    ELSE IF v[1] = "bool" THEN v[2]
    ELSE IF v[1] = "int" THEN v[2] # 0
    ELSE IF v[1] = "float" THEN ~(v[2] = 0 /\ v[3] = <<>>)
    ELSE v[2] # <<>>

(* v or d *)
PyOr(v, d) == IF Truthy(v) THEN v ELSE d

(* d.get(key) on a dict: None when the key is missing *)
DictGet(d, key) ==
    IF \E i \in 1..Len(d[2]) : d[2][i][1] = key
    THEN d[2][CHOOSE i \in 1..Len(d[2]) : d[2][i][1] = key][2]
    ELSE PyNone

Bullet == "U+2022"

Sparkles == "U+2728"

EAcute == "U+00E9"

EAcuteUpper == "U+00C9"

ZWSP == "U+200B"

Backtick == "U+0060"

MaleSign == "U+2642"

FemaleSign == "U+2640"

UpperAlpha == <<"A", "B", "C", "D", "E", "F", "G", "H", "I", "J", "K", "L", "M", "N", "O", "P", "Q", "R", "S", "T", "U", "V", "W", "X", "Y", "Z", EAcuteUpper>>

LowerAlpha == <<"a", "b", "c", "d", "e", "f", "g", "h", "i", "j", "k", "l", "m", "n", "o", "p", "q", "r", "s", "t", "u", "v", "w", "x", "y", "z", EAcute>>

AsciiLetters == {UpperAlpha[i] : i \in 1..26} \cup {LowerAlpha[i] : i \in 1..26}

(* \w *)
WordChars == AsciiLetters \cup Digits \cup {"_", EAcute, EAcuteUpper}

ToLower(c) ==
    IF \E i \in 1..Len(UpperAlpha) : UpperAlpha[i] = c
    THEN LowerAlpha[CHOOSE i \in 1..Len(UpperAlpha) : UpperAlpha[i] = c]
    ELSE c

ToUpper(c) ==
    IF \E i \in 1..Len(LowerAlpha) : LowerAlpha[i] = c
    THEN UpperAlpha[CHOOSE i \in 1..Len(LowerAlpha) : LowerAlpha[i] = c]
    ELSE c

(* s.lower(), s.upper() *)
LowerText(s) == [i \in 1..Len(s) |-> ToLower(s[i])]

UpperText(s) == [i \in 1..Len(s) |-> ToUpper(s[i])]

(* s.strip() *)
Strip(s) ==
    LET keep == {i \in 1..Len(s) : s[i] \notin Whitespace}
    IN  IF keep = {} THEN <<>>
        ELSE SubSeq(s, CHOOSE a \in keep : \A b \in keep : a <= b,
                       CHOOSE a \in keep : \A b \in keep : a >= b)

(* s.startswith(pat) *)
StartsWith(pat, s) == MatchAt(pat, s, 1)

(* the text with the characters of C removed *)
RemoveChars(s, C) == SelectSeq(s, LAMBDA c : c \notin C)

(* a literal of a pattern compiled with re.IGNORECASE; pat is lower case *)
MatchAtCI(pat, s, i) ==
    /\ i >= 1
    /\ i + Len(pat) - 1 <= Len(s)
    /\ \A k \in 1..Len(pat) : ToLower(s[i + k - 1]) = pat[k]

RECURSIVE RunEnd(_, _, _)
(* index just after the longest run of characters of C that starts at i *)
RunEnd(C, s, i) ==
    IF i <= Len(s) /\ s[i] \in C THEN RunEnd(C, s, i + 1) ELSE i

RECURSIVE RunEndNot(_, _, _)
(* the same for the characters outside C *)
RunEndNot(C, s, i) ==
    IF i <= Len(s) /\ s[i] \notin C THEN RunEndNot(C, s, i + 1) ELSE i

Least(S) == CHOOSE x \in S : \A y \in S : x <= y

Greatest(S) == CHOOSE x \in S : \A y \in S : x >= y

(* the result of pattern.search(s): whether it matched, and group(1) *)
NoMatch == [found |-> FALSE, group |-> <<>>]

Matched(g) == [found |-> TRUE, group |-> g]

IsDigitAt(s, i) == i >= 1 /\ i <= Len(s) /\ s[i] \in Digits

-----------------------------------------------------------------------------
(* helpers & regexes of parser.py.  Each XxxAt(s, i) is the pattern's match *)
(* beginning at index i; Search gives the leftmost one, as re.search does.  *)

Search(At(_, _), s) ==
    LET hits == {i \in 1..Len(s) : At(s, i).found}
    IN  IF hits = {} THEN NoMatch ELSE At(s, Least(hits))

KwAuction == <<"a", "u", "c", "t", "i", "o", "n">>

KwLevel == <<"l", "e", "v", "e", "l">>

KwShiny == <<"s", "h", "i", "n", "y">>

KwTotal == <<"t", "o", "t", "a", "l">>

KwIv == <<"i", "v">>

KwGender == <<"g", "e", "n", "d", "e", "r">>

KwNature == <<"n", "a", "t", "u", "r", "e">>

KwWinning == <<"w", "i", "n", "n", "i", "n", "g">>

KwBid == <<"b", "i", "d">>

KwPok == <<"p", "o", "k">>

KwCoins == <<"c", "o", "i", "n", "s">>

KwWinner == <<"w", "i", "n", "n", "e", "r">>

KwBidder == <<"b", "i", "d", "d", "e", "r">>

KwPokemon == <<"p", "o", "k", "e", "m", "o", "n">>

KwPokemonAccent == <<"p", "o", "k", EAcute, "m", "o", "n">>

KwDetails == <<"d", "e", "t", "a", "i", "l", "s">>

SoldMarker == <<"[", "S", "O", "L", "D", "]">>

Slash31 == <<"/", "3", "1">>

(* def clean_number(text) *)
clean_number(text) ==
    IF text = <<>> THEN PyNone
    ELSE LET s == SelectSeq(text, LAMBDA c : c \in Digits)
         IN  IF s # <<>> THEN PyInt(TextToInt(s)) ELSE PyNone

(* def clean_text(s), s any value; the result is text *)
clean_text(v) ==
    IF ~IsStr(v) THEN <<>>
    ELSE Strip(RemoveChars(RemoveChars(v[2], {ZWSP}), {"*", "_", Backtick, "~"}))

(* AUCTION_TITLE_RE = Auction\s*#\s*(\d+), IGNORECASE *)
AuctionTitleAt(s, i) ==
    IF ~MatchAtCI(KwAuction, s, i) THEN NoMatch
    ELSE LET a == RunEnd(Whitespace, s, i + 7)
         IN  IF ~(a <= Len(s) /\ s[a] = "#") THEN NoMatch
             ELSE LET b == RunEnd(Whitespace, s, a + 1)
                  IN  IF ~IsDigitAt(s, b) THEN NoMatch
                      ELSE Matched(SubSeq(s, b, DigitRunEnd(s, b) - 1))

(* LEVEL_RE = Level\s*[:\s]*?(\d{1,3}), IGNORECASE *)
LevelAt(s, i) ==
    IF ~MatchAtCI(KwLevel, s, i) THEN NoMatch
    ELSE LET a == RunEnd(Whitespace \cup {":"}, s, i + 5)
         IN  IF ~IsDigitAt(s, a) THEN NoMatch
             ELSE Matched(SubSeq(s, a, Min(DigitRunEnd(s, a), a + 3) - 1))

(* SHINY_RE = U+2728 | \bshiny\b, IGNORECASE *)
ShinyFound(s) ==
    \/ \E i \in 1..Len(s) : s[i] = Sparkles
    \/ \E i \in 1..Len(s) :
          /\ MatchAtCI(KwShiny, s, i)
          /\ (i = 1 \/ s[i - 1] \notin WordChars)
          /\ (i + 5 > Len(s) \/ s[i + 5] \notin WordChars)

(* float(text) for text  digits  or  digits.digits *)
FloatOf(g) ==
    LET e == DigitRunEnd(g, 1)
        frac == SubSeq(g, e + 1, Len(g))
        nz == {k \in 1..Len(frac) : frac[k] # "0"}
    IN  PyFloat(TextToInt(SubSeq(g, 1, e - 1)),
                IF nz = {} THEN <<>> ELSE SubSeq(frac, 1, Greatest(nz)))

(* TOTAL_IV_RE = Total\s*IV[:\*\s]*([0-9]+(?:\.[0-9]+)?)\s*%?, IGNORECASE *)
TotalIvAt(s, i) ==
    IF ~MatchAtCI(KwTotal, s, i) THEN NoMatch
    ELSE LET a == RunEnd(Whitespace, s, i + 5)
         IN  IF ~MatchAtCI(KwIv, s, a) THEN NoMatch
             ELSE LET b == RunEnd(Whitespace \cup {":", "*"}, s, a + 2)
                      c == DigitRunEnd(s, b)
                  IN  IF ~IsDigitAt(s, b) THEN NoMatch
                      ELSE IF c <= Len(s) /\ s[c] = "." /\ IsDigitAt(s, c + 1)
                           THEN Matched(SubSeq(s, b, DigitRunEnd(s, c + 1) - 1))
                           ELSE Matched(SubSeq(s, b, c - 1))

SubIvKeys == <<"iv_hp", "iv_atk", "iv_def", "iv_spatk", "iv_spdef", "iv_speed">>

(* Sp\.?\s*<rest> at i: the index just after it, 0 when it does not match *)
SpNameEnd(rest, s, i) ==
    IF ~MatchAtCI(<<"s", "p">>, s, i) THEN 0
    ELSE LET p == IF i + 2 <= Len(s) /\ s[i + 2] = "." THEN i + 3 ELSE i + 2
             q == RunEnd(Whitespace, s, p)
         IN  IF MatchAtCI(rest, s, q) THEN q + Len(rest) ELSE 0

LitEnd(lit, s, i) == IF MatchAtCI(lit, s, i) THEN i + Len(lit) ELSE 0

(* the attribute name that opens each pattern of SUBIV_PATTERNS *)
SubIvNameEnd(key, s, i) ==
    IF key = "iv_hp" THEN LitEnd(<<"h", "p">>, s, i)
    ELSE IF key = "iv_atk" THEN LitEnd(<<"a", "t", "t", "a", "c", "k">>, s, i)
    ELSE IF key = "iv_def" THEN LitEnd(<<"d", "e", "f", "e", "n", "s", "e">>, s, i)
    ELSE IF key = "iv_spatk" THEN SpNameEnd(<<"a", "t", "k">>, s, i)
    ELSE IF key = "iv_spdef" THEN SpNameEnd(<<"d", "e", "f">>, s, i)
    ELSE LitEnd(<<"s", "p", "e", "e", "d">>, s, i)

(* IV[:\s]*([0-9]{1,2})/31 at j *)
IvGroupAt(s, j) ==
    IF ~MatchAtCI(KwIv, s, j) THEN NoMatch
    ELSE LET a == RunEnd(Whitespace \cup {":"}, s, j + 2)
         IN  IF IsDigitAt(s, a) /\ IsDigitAt(s, a + 1) /\ MatchAt(Slash31, s, a + 2)
             THEN Matched(SubSeq(s, a, a + 1))
             ELSE IF IsDigitAt(s, a) /\ MatchAt(Slash31, s, a + 1)
             THEN Matched(<<s[a]>>)
             ELSE NoMatch

(* SUBIV_PATTERNS[key] = <name>[:\s]*.*?IV[:\s]*([0-9]{1,2})/31,          *)
(* IGNORECASE | DOTALL, at i: the lazy .*? stops at the first IV that      *)
(* completes the match                                                     *)
SubIvAt(key, s, i) ==
    LET n == SubIvNameEnd(key, s, i)
        js == {j \in n..Len(s) : IvGroupAt(s, j).found}
    IN  IF n = 0 \/ js = {} THEN NoMatch ELSE IvGroupAt(s, Least(js))

SubIvSearch(key, s) ==
    LET hits == {i \in 1..Len(s) : SubIvAt(key, s, i).found}
    IN  IF hits = {} THEN NoMatch ELSE SubIvAt(key, s, Least(hits))

GenderChars == WordChars \cup {MaleSign, FemaleSign}

(* Gender[:\s]*([MFmf<male><female>\w]+), IGNORECASE *)
GenderAt(s, i) ==
    IF ~MatchAtCI(KwGender, s, i) THEN NoMatch
    ELSE LET a == RunEnd(Whitespace \cup {":"}, s, i + 6)
         IN  IF a <= Len(s) /\ s[a] \in GenderChars
             THEN Matched(SubSeq(s, a, RunEnd(GenderChars, s, a) - 1))
             ELSE NoMatch

NatureChars == AsciiLetters \cup {"-"}

(* Nature[:\s]*([A-Za-z\-]+), IGNORECASE *)
NatureAt(s, i) ==
    IF ~MatchAtCI(KwNature, s, i) THEN NoMatch
    ELSE LET a == RunEnd(Whitespace \cup {":"}, s, i + 6)
         IN  IF a <= Len(s) /\ s[a] \in NatureChars
             THEN Matched(SubSeq(s, a, RunEnd(NatureChars, s, a) - 1))
             ELSE NoMatch

\* WINNING_BID_RE = Winning\s*Bid[^0-9\n\r]*([0-9][0-9,]*), IGNORECASE
WinningBidAt(s, i) ==
    IF ~MatchAtCI(KwWinning, s, i) THEN NoMatch
    ELSE LET a == RunEnd(Whitespace, s, i + 7)
         IN  IF ~MatchAtCI(KwBid, s, a) THEN NoMatch
             ELSE LET b == RunEndNot(Digits \cup {"\n", "\r"}, s, a + 3)
                  IN  IF ~IsDigitAt(s, b) THEN NoMatch
                      ELSE Matched(SubSeq(s, b, RunEnd(Digits \cup {","}, s, b) - 1))

(* ([0-9,]+)\s*Pok[e<e acute>]coins, IGNORECASE *)
PokecoinsAt(s, i) ==
    LET e == RunEnd(Digits \cup {","}, s, i)
        a == RunEnd(Whitespace, s, e)
    IN  IF /\ e > i
           /\ MatchAtCI(KwPok, s, a)
           /\ a + 3 <= Len(s)
           /\ ToLower(s[a + 3]) \in {"e", EAcute}
           /\ MatchAtCI(KwCoins, s, a + 4)
        THEN Matched(SubSeq(s, i, e - 1))
        ELSE NoMatch

(* WINNER_RE = Winner[:<backtick>\s]*<@!?(\d+)>, IGNORECASE *)
WinnerAt(s, i) ==
    IF ~MatchAtCI(KwWinner, s, i) THEN NoMatch
    ELSE LET a == RunEnd(Whitespace \cup {":", Backtick}, s, i + 6)
             b == IF a + 2 <= Len(s) /\ s[a + 2] = "!" THEN a + 3 ELSE a + 2
             c == DigitRunEnd(s, b)
         IN  IF /\ MatchAt(<<"<", "@">>, s, a)
                /\ IsDigitAt(s, b)
                /\ c <= Len(s)
                /\ s[c] = ">"
             THEN Matched(SubSeq(s, b, c - 1))
             ELSE NoMatch

NameStop == {"\n", "\r", ","}

RECURSIVE WinnerNameFrom(_, _, _)
(* [:\s]*@?([^\n\r,]+) after the keyword that ends at n - 1: [:\s]* has    *)
(* taken s[n..p-1]; it gives characters back until a group can start       *)
WinnerNameFrom(s, n, p) ==
    IF p < n THEN NoMatch
    ELSE IF p + 1 <= Len(s) /\ s[p] = "@" /\ s[p + 1] \notin NameStop
         THEN Matched(SubSeq(s, p + 1, RunEndNot(NameStop, s, p + 1) - 1))
    ELSE IF p <= Len(s) /\ s[p] \notin NameStop
         THEN Matched(SubSeq(s, p, RunEndNot(NameStop, s, p) - 1))
    ELSE WinnerNameFrom(s, n, p - 1)

(* (?:Winner|Bidder)[:\s]*@?([^\n\r,]+), IGNORECASE *)
WinnerNameAt(s, i) ==
    IF MatchAtCI(KwWinner, s, i) \/ MatchAtCI(KwBidder, s, i)
    THEN WinnerNameFrom(s, i + 6, RunEnd(Whitespace \cup {":"}, s, i + 6))
    ELSE NoMatch

RECURSIVE RemoveLevelFrom(_, _)
(* re.sub(r"Level\s*\d+", "", s, flags=re.IGNORECASE), from index i on *)
RemoveLevelFrom(s, i) ==
    IF i > Len(s) THEN <<>>
    ELSE LET d == RunEnd(Whitespace, s, i + 5)
         IN  IF MatchAtCI(KwLevel, s, i) /\ IsDigitAt(s, d)
             THEN RemoveLevelFrom(s, DigitRunEnd(s, d))
             ELSE <<s[i]>> \o RemoveLevelFrom(s, i + 1)

(* title.split(bullet)[-1], else re.split(r"[-:]", title)[-1].strip() *)
SpeciesPart(title) ==
    LET bullets == {i \in 1..Len(title) : title[i] = Bullet}
        seps == {i \in 1..Len(title) : title[i] \in {"-", ":"}}
    IN  IF bullets # {} THEN SubSeq(title, Greatest(bullets) + 1, Len(title))
        ELSE IF seps # {} THEN Strip(SubSeq(title, Greatest(seps) + 1, Len(title)))
        ELSE Strip(title)

SpeciesOf(title) ==
    Strip(RemoveChars(Strip(RemoveLevelFrom(SpeciesPart(title), 1)), {Sparkles}))

-----------------------------------------------------------------------------
(* extract_auction_data *)

KeyTitle == <<"t", "i", "t", "l", "e">>

KeyFields == <<"f", "i", "e", "l", "d", "s">>

KeyName == <<"n", "a", "m", "e">>

KeyValue == <<"v", "a", "l", "u", "e">>

KeyAuthor == <<"a", "u", "t", "h", "o", "r">>

KeyTimestamp == <<"t", "i", "m", "e", "s", "t", "a", "m", "p">>

KeyEmbeds == <<"e", "m", "b", "e", "d", "s">>

(* the marker anywhere in the title *)
TitleMarksSoldAnywhere(title) == Contains(SoldMarker, UpperText(title))

(* title.upper().strip().startswith("[SOLD]") *)
TitleMarksSold(title) == StartsWith(SoldMarker, Strip(UpperText(title)))

(* iv_hp = ... = iv_total = None; winning_bid = winner_id = nature = gender = None *)
InitOut ==
    [iv_hp |-> PyNone, iv_atk |-> PyNone, iv_def |-> PyNone, iv_spatk |-> PyNone,
     iv_spdef |-> PyNone, iv_speed |-> PyNone, iv_total |-> PyNone,
     winning_bid |-> PyNone, winner_id |-> PyNone, nature |-> PyNone,
     gender |-> PyNone]

(* if "pokemon" in fname or "pok<e acute>mon" in fname or "details" in fname *)
IsPokemonField(fname) ==
    Contains(KwPokemon, fname) \/ Contains(KwPokemonAccent, fname) \/ Contains(KwDetails, fname)

(* if "auction" in fname or "details" in fname or "winning" in fname *)
IsAuctionField(fname) ==
    Contains(KwAuction, fname) \/ Contains(KwDetails, fname) \/ Contains(KwWinning, fname)

(* if m := pat.search(fval): val = int(m.group(1)); iv_<key> = val *)
SubIvValue(key, fval, old) ==
    LET m == SubIvSearch(key, fval)
    IN  IF m.found THEN PyInt(TextToInt(m.group)) ELSE old

(* the "Pokemon details" block of the field loop *)
ParsePokemonField(out, fval) ==
    LET m_tot == Search(TotalIvAt, fval)
        g == Search(GenderAt, fval)
        n == Search(NatureAt, fval)
    IN  [out EXCEPT
            !.iv_total = IF m_tot.found THEN FloatOf(m_tot.group) ELSE @,
            !.iv_hp = SubIvValue("iv_hp", fval, @),
            !.iv_atk = SubIvValue("iv_atk", fval, @),
            !.iv_def = SubIvValue("iv_def", fval, @),
            !.iv_spatk = SubIvValue("iv_spatk", fval, @),
            !.iv_spdef = SubIvValue("iv_spdef", fval, @),
            !.iv_speed = SubIvValue("iv_speed", fval, @),
            !.gender = IF g.found THEN PyStr(Strip(g.group)) ELSE @,
            !.nature = IF n.found THEN PyStr(Strip(n.group)) ELSE @]

(* if m := WINNING_BID_RE.search(fval): ... else: the Pokecoins fallback *)
WinningBidValue(fval, old) ==
    LET m == Search(WinningBidAt, fval)
        m2 == Search(PokecoinsAt, fval)
    IN  IF m.found THEN clean_number(m.group)
        ELSE IF m2.found THEN clean_number(m2.group)
        ELSE old

(* the "auction/winning info" block of the field loop *)
ParseAuctionField(out, fval) ==
    LET w == Search(WinnerAt, fval)
        wn == Search(WinnerNameAt, fval)
    IN  [out EXCEPT
            !.winning_bid = WinningBidValue(fval, @),
            !.winner_id = IF w.found THEN PyStr(w.group)
                          ELSE IF wn.found THEN PyStr(Strip(wn.group))
                          ELSE @]

(* fld.get("name") or "" *)
FieldName(fld) == PyOr(DictGet(fld, KeyName), PyStr(<<>>))

(* fld.get(...) on a non-dict, or .lower() on a non-str, raises *)
FieldRaises(fld) == ~IsDict(fld) \/ ~IsStr(FieldName(fld))

(* one iteration of  for fld in ...  for a fld that does not raise *)
ParseField(out, fld) ==
    LET fname == LowerText(FieldName(fld)[2])
        fval == clean_text(PyOr(DictGet(fld, KeyValue), PyStr(<<>>)))
        o1 == IF IsPokemonField(fname) THEN ParsePokemonField(out, fval) ELSE out
    IN  IF IsAuctionField(fname) THEN ParseAuctionField(o1, fval) ELSE o1

RECURSIVE ParseFields(_, _)
ParseFields(out, flds) ==
    IF flds = <<>> THEN out
    ELSE ParseFields(ParseField(out, Head(flds)), Tail(flds))

(* embed.get("fields", []) or [] *)
FieldsValue(emb) == PyOr(DictGet(emb, KeyFields), PyList(<<>>))

(* iterating a number or a bool raises TypeError; iterating a non-empty    *)
(* str or dict gives str items, on which fld.get raises AttributeError     *)
FieldLoopRaises(emb) ==
    LET fv == FieldsValue(emb)
    IN  ~IsList(fv) \/ \E i \in 1..Len(fv[2]) : FieldRaises(fv[2][i])

(* embed.get("author") or {} *)
AuthorValue(emb) == PyOr(DictGet(emb, KeyAuthor), PyDict(<<>>))

(* json.dumps(embed, ensure_ascii=False): the serialised embed, a text     *)
(* determined by the embed                                                 *)
json_dumps(v) == <<"json", v>>

RecordKeys ==
    {"auction_id", "species", "level", "shiny", "gender", "nature", "iv_hp",
     "iv_atk", "iv_def", "iv_spatk", "iv_spdef", "iv_speed", "iv_total",
     "winning_bid", "winner_id", "seller", "timestamp", "title", "raw"}

(* the dict built by the return statement *)
BuildRecord(emb, title, auction_id, species, out) ==
    LET lv == Search(LevelAt, title)
    IN  [auction_id |-> PyStr(auction_id),
         species |-> PyStr(species),
         level |-> IF lv.found THEN PyInt(TextToInt(lv.group)) ELSE PyNone,
         shiny |-> IF ShinyFound(title) THEN PyInt(1) ELSE PyInt(0),
         gender |-> out.gender,
         nature |-> out.nature,
         iv_hp |-> out.iv_hp,
         iv_atk |-> out.iv_atk,
         iv_def |-> out.iv_def,
         iv_spatk |-> out.iv_spatk,
         iv_spdef |-> out.iv_spdef,
         iv_speed |-> out.iv_speed,
         iv_total |-> out.iv_total,
         winning_bid |-> out.winning_bid,
         winner_id |-> out.winner_id,
         seller |-> DictGet(AuthorValue(emb), KeyName),
         timestamp |-> DictGet(emb, KeyTimestamp),
         title |-> PyStr(title),
         raw |-> json_dumps(emb)]

PyRecord(r) == <<"record", r>>

IsRecord(v) == v[1] = "record"

(* the title as the function reads it: embed.get("title") or "" *)
TitleValue(emb) == PyOr(DictGet(emb, KeyTitle), PyStr(<<>>))

(* an exception raised inside the try block *)
PyRaise == <<"raise">>

(* the body of the try block: None, the record, or an exception *)
TryBody(emb) ==
    IF ~IsDict(emb) THEN PyNone
    ELSE IF ~IsStr(TitleValue(emb)) THEN PyNone
    ELSE LET title == TitleValue(emb)[2]
             aid_m == Search(AuctionTitleAt, title)
             species == SpeciesOf(title)
         IN  IF ~TitleMarksSold(title) THEN PyNone
             ELSE IF ~aid_m.found THEN PyNone
             ELSE IF species = <<>> THEN PyNone
             ELSE IF FieldLoopRaises(emb) THEN PyRaise
             ELSE IF ~IsDict(AuthorValue(emb)) THEN PyRaise
             ELSE PyRecord(BuildRecord(emb, title, aid_m.group, species,
                                       ParseFields(InitOut, FieldsValue(emb)[2])))

(* a handler that lets the exception through *)
ExceptReraises(outcome) == outcome

(* except Exception as e: logger.error(...); return None *)
ExceptReturnsNone(outcome) == IF outcome = PyRaise THEN PyNone ELSE outcome

(* def extract_auction_data(embed): None, or the record.  An exception in  *)
(* the try block is caught and None is returned.                           *)
extract_auction_data(emb) == ExceptReturnsNone(TryBody(emb))

-----------------------------------------------------------------------------
(* The embeds given to extract_auction_data *)

TxtTitleSold == <<"[", "S", "O", "L", "D", "]", " ", "A", "u", "c", "t", "i", "o", "n", " ", "#", "1", "2", " ", Bullet, " ", "L", "e", "v", "e", "l", " ", "5", " ", "P", "i", "k", "a", "c", "h", "u">>

TxtTitleSoldLower == <<" ", " ", "[", "s", "o", "l", "d", "]", " ", "a", "u", "c", "t", "i", "o", "n", "#", "7", " ", "-", " ", Sparkles, " ", "M", "e", "w">>

TxtTitleShinyWord == <<"[", "S", "o", "l", "d", "]", " ", "A", "u", "c", "t", "i", "o", "n", " ", "#", " ", "3", " ", Bullet, " ", "S", "h", "i", "n", "y", " ", "E", "e", "v", "e", "e">>

TxtTitleOpen == <<"A", "u", "c", "t", "i", "o", "n", " ", "#", "1", "2", " ", Bullet, " ", "L", "e", "v", "e", "l", " ", "5", " ", "P", "i", "k", "a", "c", "h", "u">>

TxtTitleMarkerInside == <<"R", "e", ":", " ", "[", "S", "O", "L", "D", "]", " ", "A", "u", "c", "t", "i", "o", "n", " ", "#", "1", "2", " ", Bullet, " ", "P", "i", "k", "a", "c", "h", "u">>

TxtTitleNoId == <<"[", "S", "O", "L", "D", "]", " ", "P", "i", "k", "a", "c", "h", "u">>

TxtTitleNoSpecies == <<"[", "S", "O", "L", "D", "]", " ", "A", "u", "c", "t", "i", "o", "n", " ", "#", "9", " ", Bullet, " ", "L", "e", "v", "e", "l", " ", "4", "0">>

TxtNamePokemon == <<"P", "o", "k", EAcute, "m", "o", "n", " ", "D", "e", "t", "a", "i", "l", "s">>

TxtNameAuction == <<"A", "u", "c", "t", "i", "o", "n", " ", "D", "e", "t", "a", "i", "l", "s">>

TxtNameWinning == <<"W", "i", "n", "n", "i", "n", "g", " ", "i", "n", "f", "o">>

TxtNameDetails == <<"D", "e", "t", "a", "i", "l", "s">>

TxtNameNotes == <<"N", "o", "t", "e", "s">>

TxtHpHigh == <<"H", "P", " ", "I", "V", ":", " ", "4", "5", "/", "3", "1">>

TxtStats == <<"*", "*", "N", "a", "t", "u", "r", "e", ":", "*", "*", " ", "T", "i", "m", "i", "d", "\n", "*", "*", "G", "e", "n", "d", "e", "r", ":", "*", "*", " ", "M", "a", "l", "e", "\n", "H", "P", " ", "-", " ", "I", "V", ":", " ", "2", "8", "/", "3", "1", "\n", "A", "t", "t", "a", "c", "k", " ", "I", "V", ":", " ", "3", "/", "3", "1", "\n", "S", "p", ".", " ", "A", "t", "k", " ", "I", "V", ":", "3", "1", "/", "3", "1", "\n", "*", "*", "T", "o", "t", "a", "l", " ", "I", "V", ":", "*", "*", " ", "8", "8", ".", "2", "0", "%">>

TxtBidZero == <<"W", "i", "n", "n", "i", "n", "g", " ", "B", "i", "d", ":", " ", "0">>

TxtBid == <<"*", "*", "W", "i", "n", "n", "i", "n", "g", " ", "B", "i", "d", ":", "*", "*", " ", "7", "5", ",", "0", "0", "0", "\n", "*", "*", "W", "i", "n", "n", "e", "r", ":", "*", "*", " ", "<", "@", "1", "2", "3", ">">>

TxtCoins == <<"S", "o", "l", "d", " ", "f", "o", "r", " ", "1", ",", "2", "0", "0", " ", "P", "o", "k", EAcute, "c", "o", "i", "n", "s", "\n", "B", "i", "d", "d", "e", "r", ":", " ", "@", "A", "s", "h", ",", " ", "t", "h", "a", "n", "k", "s">>

TxtMixed == <<"S", "p", "e", "e", "d", " ", "I", "V", ":", " ", "9", "/", "3", "1", " ", "S", "p", " ", "D", "e", "f", " ", "I", "V", ":", " ", "1", "0", "0", "/", "3", "1", "\n", "W", "i", "n", "n", "i", "n", "g", " ", "B", "i", "d", ":", " ", "0", "0", "\n", "W", "i", "n", "n", "e", "r", ":">>

TxtAsh == <<"A", "s", "h">>

TxtTime == <<"2", "0", "2", "4", "-", "0", "1", "-", "1", "5">>

Field(name, value) == PyDict(<< <<KeyName, name>>, <<KeyValue, value>> >>)

EmbedTitles ==
    {PyStr(TxtTitleSold),
     PyStr(TxtTitleSoldLower),
     PyStr(TxtTitleShinyWord),
     PyStr(TxtTitleOpen),
     PyStr(TxtTitleMarkerInside),
     PyStr(TxtTitleNoId),
     PyStr(TxtTitleNoSpecies),
     PyNone,
     PyInt(5)}

EmbedFields ==
    {PyNone,
     PyList(<<Field(PyStr(TxtNamePokemon), PyStr(TxtHpHigh))>>),
     PyList(<<Field(PyStr(TxtNamePokemon), PyStr(TxtStats))>>),
     PyList(<<Field(PyStr(TxtNameAuction), PyStr(TxtBidZero))>>),
     PyList(<<Field(PyStr(TxtNameAuction), PyStr(TxtBid))>>),
     PyList(<<Field(PyStr(TxtNameWinning), PyStr(TxtCoins))>>),
     PyList(<<Field(PyStr(TxtNamePokemon), PyStr(TxtStats)), Field(PyStr(TxtNameAuction), PyStr(TxtBid))>>),
     PyList(<<Field(PyStr(TxtNameDetails), PyStr(TxtMixed))>>),
     PyList(<<Field(PyStr(TxtNameNotes), PyStr(TxtMixed))>>),
     PyList(<<PyInt(3)>>),
     PyInt(5),
     PyList(<<Field(PyInt(7), PyStr(TxtHpHigh))>>)}

EmbedAuthors ==
    {PyNone,
     PyDict(<< <<KeyName, PyStr(TxtAsh)>> >>),
     PyDict(<< <<KeyName, PyInt(7)>> >>),
     PyStr(TxtAsh)}

EmbedTimestamps ==
    {PyNone,
     PyStr(TxtTime),
     PyDict(<< <<KeyName, PyInt(1)>> >>)}


(* a key that is absent and a key whose value is null read the same        *)
(* through dict.get, so both are PyNone here                               *)
MakeEmbed(title, fields, author, timestamp) ==
    PyDict(<< <<KeyTitle, title>>, <<KeyFields, fields>>,
              <<KeyAuthor, author>>, <<KeyTimestamp, timestamp>> >>)

Embeds ==
    {MakeEmbed(t, f, a, ts) : t \in EmbedTitles, f \in EmbedFields,
                              a \in EmbedAuthors, ts \in EmbedTimestamps}
        \cup {PyInt(3), PyStr(TxtAsh)}

ExtractInit ==
    /\ embed \in Embeds
    /\ result = PyNone
    /\ extract_pc = "call"
    /\ ScanIdle
    /\ IngestIdle
    /\ PriceIdle
    /\ AnalyzerIdle

ExtractCall ==
    /\ extract_pc = "call"
    /\ result' = extract_auction_data(embed)
    /\ extract_pc' = "returned"
    /\ UNCHANGED embed
    /\ UNCHANGED <<scan_vars, ingest_vars, price_vars, analyzer_vars>>

ExtractNext == ExtractCall

SpecExtract == ExtractInit /\ [][ExtractNext]_vars

-----------------------------------------------------------------------------
(* Properties of extract_auction_data *)

Returned == extract_pc = "returned"

(* the completed-sale test in the words of the contract: the title, a     *)
(* text, trimmed and compared without regard to case, begins with [SOLD]   *)
BeginsWithSoldMarker(t) ==
    LET s == Strip(t)
    IN  /\ Len(s) >= 6
        /\ \A k \in 1..6 : ToUpper(s[k]) = SoldMarker[k]

HasSoldTitle(e) ==
    /\ IsDict(e)
    /\ IsStr(DictGet(e, KeyTitle))
    /\ BeginsWithSoldMarker(DictGet(e, KeyTitle)[2])

(* C3: extract_auction_data returns None for every embed whose title,      *)
(* trimmed and compared case-insensitively, does not begin with [SOLD],    *)
(* whatever the rest of the title and the fields contain; every returned   *)
(* record has a title that begins with the marker.                         *)
C3_OnlySoldTitles ==
    Returned =>
        /\ ~HasSoldTitle(embed) => result = PyNone
        /\ IsRecord(result) => BeginsWithSoldMarker(result[2].title[2])

(* the marker stands inside the title, after other text, and the title     *)
(* and the fields hold everything else a record needs: None is returned    *)
C3_Witness ==
    /\ Returned
    /\ embed = MakeEmbed(PyStr(TxtTitleMarkerInside),
                         PyList(<<Field(PyStr(TxtNamePokemon), PyStr(TxtStats)),
                                  Field(PyStr(TxtNameAuction), PyStr(TxtBid))>>),
                         PyDict(<< <<KeyName, PyStr(TxtAsh)>> >>),
                         PyStr(TxtTime))
    /\ result = PyNone

InRange(v, lo, hi) == v[1] = "int" /\ v[2] >= lo /\ v[2] <= hi

(* C4: in every returned record each of the six sub-attribute values is    *)
(* unset or an integer in 0..31.  The code stores what the pattern         *)
(* [0-9]{1,2} captured, 0..99, without a range test.                       *)
C4_AsClaimed ==
    (Returned /\ IsRecord(result)) =>
        \A k \in 1..Len(SubIvKeys) :
            \/ result[2][SubIvKeys[k]] = PyNone
            \/ InRange(result[2][SubIvKeys[k]], 0, 31)

(* C5: in every returned record winning_bid is unset or a strictly         *)
(* positive integer.  The code stores clean_number of the captured digits, *)
(* which is 0 for the text 0.                                              *)
C5_AsClaimed ==
    (Returned /\ IsRecord(result)) =>
        \/ result[2].winning_bid = PyNone
        \/ (result[2].winning_bid[1] = "int" /\ result[2].winning_bid[2] > 0)

-----------------------------------------------------------------------------
(* The auctions table and the statements process_file runs on it *)

TextColumns ==
    {"auction_id", "species", "gender", "nature", "winner_id", "seller",
     "timestamp", "title", "raw"}

DigitChars == <<"0", "1", "2", "3", "4", "5", "6", "7", "8", "9">>

RECURSIVE NatToText(_)
NatToText(n) ==
    IF n < 10 THEN <<DigitChars[n + 1]>>
    ELSE NatToText(n \div 10) \o <<DigitChars[(n % 10) + 1]>>

IntToText(n) == IF n < 0 THEN <<"-">> \o NatToText(0 - n) ELSE NatToText(n)

(* what a column of the table keeps of a bound value: a column of TEXT     *)
(* affinity turns a number into its text; INTEGER and REAL columns keep    *)
(* the integers and floats the parser produces                             *)
StoreValue(col, v) ==
    IF col \notin TextColumns THEN v
    ELSE IF v[1] = "int" THEN PyStr(IntToText(v[2]))
    ELSE IF v[1] = "bool" THEN PyStr(IF v[2] THEN <<"1">> ELSE <<"0">>)
    ELSE IF v[1] = "float"
         THEN PyStr(IntToText(v[2]) \o <<".">> \o (IF v[3] = <<>> THEN <<"0">> ELSE v[3]))
    ELSE v

(* the 19 columns of INSERT_SQL as the table keeps them *)
StoreRow(rec) == [c \in RecordKeys |-> StoreValue(c, rec[c])]

(* sqlite3 binds None, int, float and str; a list or a dict is an          *)
(* unsupported type and raises a sqlite3.Error                             *)
Bindable(rec) ==
    \A c \in RecordKeys : rec[c][1] \in {"null", "bool", "int", "float", "str", "json"}

(* INSERT without conflict handling *)
InsertAlways(t, rec) ==
    [rows |-> t.rows \cup {[id |-> t.seq + 1, cols |-> StoreRow(rec)]},
     seq |-> t.seq + 1]

(* INSERT OR IGNORE: the row already stored under the auction_id stays *)
InsertOrIgnore(t, rec) ==
    IF \E r \in t.rows : r.cols.auction_id = StoreRow(rec).auction_id
    THEN t
    ELSE InsertAlways(t, rec)

(* INSERT OR REPLACE with auction_id TEXT UNIQUE: the row that holds the   *)
(* same auction_id is deleted and the new row gets the next id             *)
InsertOrReplace(t, rec) ==
    [rows |-> {r \in t.rows : r.cols.auction_id # StoreRow(rec).auction_id}
                  \cup {[id |-> t.seq + 1, cols |-> StoreRow(rec)]},
     seq |-> t.seq + 1]

RECURSIVE ExecuteFrom(_, _, _, _)
(* cur.executemany(INSERT_SQL, batch) from parameter set k on: the sets    *)
(* are bound and run in order inside one transaction; the statement for    *)
(* set fail_at fails in the storage (0: none does), and an unbindable set  *)
(* fails; failed_at is the set that raised, 0 when all ran                 *)
ExecuteFrom(t, params, k, fail_at) ==
    IF k > Len(params) THEN [failed_at |-> 0, table |-> t]
    ELSE IF k = fail_at \/ ~Bindable(params[k]) THEN [failed_at |-> k, table |-> t]
    ELSE ExecuteFrom(InsertOrReplace(t, params[k]), params, k + 1, fail_at)

ExecuteMany(t, params, fail_at) == ExecuteFrom(t, params, 1, fail_at)

(* a rollback that leaves the writes of the open transaction in place *)
RollbackKeepsWrites(committed, working) == working

(* conn.rollback(): the table as the last commit left it *)
Rollback(committed, working) == committed

(* conn.close() with a transaction open: its writes are dropped *)
Close(committed, working) == committed

(* the stored records without the id the table gave them *)
Content(t) == {r.cols : r \in t.rows}

AuctionIds(t) == {r.cols.auction_id : r \in t.rows}

RowOf(t, aid) == CHOOSE r \in t.rows : r.cols.auction_id = aid

-----------------------------------------------------------------------------
(* process_file *)

MaxMsgs == 3

MaxBatch == 2

AuthorAsh == PyDict(<< <<KeyName, PyStr(TxtAsh)>> >>)

(* sold, auction 12, with a winning bid *)
EmbedA ==
    MakeEmbed(PyStr(TxtTitleSold),
              PyList(<<Field(PyStr(TxtNameAuction), PyStr(TxtBid))>>),
              AuthorAsh, PyStr(TxtTime))

(* sold, auction 12 again with other fields; the author name is a number *)
EmbedB ==
    MakeEmbed(PyStr(TxtTitleSold),
              PyList(<<Field(PyStr(TxtNamePokemon), PyStr(TxtStats))>>),
              PyDict(<< <<KeyName, PyInt(7)>> >>), PyNone)

(* sold, auction 7 *)
EmbedC == MakeEmbed(PyStr(TxtTitleSoldLower), PyNone, PyNone, PyNone)

(* not sold *)
EmbedOpen == MakeEmbed(PyStr(TxtTitleOpen), PyNone, AuthorAsh, PyStr(TxtTime))

(* sold, auction 3, with a timestamp that is an object *)
EmbedUnbindable ==
    MakeEmbed(PyStr(TxtTitleShinyWord), PyNone, AuthorAsh,
              PyDict(<< <<KeyName, PyInt(1)>> >>))

Message(embeds) == PyDict(<< <<KeyEmbeds, embeds>> >>)

MsgA == Message(PyList(<<EmbedA>>))

MsgB == Message(PyList(<<PyInt(3), EmbedB, EmbedOpen, EmbedC>>))

MsgNumber == Message(PyInt(5))

MsgUnbindable == Message(PyList(<<EmbedUnbindable>>))

MsgText == Message(PyStr(TxtAsh))

Messages == {MsgA, MsgB, MsgNumber, MsgUnbindable, MsgText}

(* the documents: what stream_messages_from_file yields for them *)
Streams == UNION {[1..n -> Messages] : n \in 0..MaxMsgs}

Reverse(s) == [i \in 1..Len(s) |-> s[Len(s) + 1 - i]]

(* the second run reads the same document or an overlapping one *)
SecondDocs(s) == {s, Reverse(s)}

(* embeds = message.get("embeds") or [] *)
EmbedsOf(message) == PyOr(DictGet(message, KeyEmbeds), PyList(<<>>))

(* for embed in embeds: a number or a bool is not iterable (TypeError) *)
EmbedsRaises(message) == EmbedsOf(message)[1] \in {"int", "float", "bool"}

(* what the for loop iterates: the items of a list, the characters of a   *)
(* str, the keys of a dict                                                 *)
EmbedItems(message) ==
    LET v == EmbedsOf(message)
    IN  IF IsList(v) THEN v[2]
        ELSE IF IsStr(v) THEN [i \in 1..Len(v[2]) |-> PyStr(<<v[2][i]>>)]
        ELSE [i \in 1..Len(v[2]) |-> PyStr(v[2][i][1])]

RECURSIVE AcceptedOf(_)
(* the tuples the inner loop appends for a sequence of embeds: an item     *)
(* that is not a dict is skipped, and so is one for which                  *)
(* extract_auction_data returns None                                       *)
AcceptedOf(items) ==
    IF items = <<>> THEN <<>>
    ELSE LET e == Head(items)
             auction_data == IF IsDict(e) THEN extract_auction_data(e) ELSE PyNone
         IN  (IF IsRecord(auction_data) THEN <<auction_data[2]>> ELSE <<>>)
                 \o AcceptedOf(Tail(items))

(* a threshold test that holds for every batch that is not empty *)
BatchNotEmpty(b, size) == Len(b) >= 1

(* if len(batch) >= batch_size, tested once per message, after the loop   *)
(* over its embeds                                                         *)
BatchFull(b, size) == Len(b) >= size

(* a variant that counts the records before the write is attempted *)
CountAttempted(count, records, failed_at) == count + Len(records)

(* inserted_count += len(batch), the statement after conn.commit() in the *)
(* try block: it is reached only when executemany and commit returned     *)
(* (failed_at = 0)                                                        *)
CountCommitted(count, records, failed_at) ==
    IF failed_at = 0 THEN count + Len(records) ELSE count

(* a batch that is kept after its write *)
BatchKept(b) == b

(* finally: batch = [] *)
BatchAfterWrite(b) == <<>>

(* process_file(input_path, db_path, batch_size) on a new database, up to  *)
(* the first message of the stream                                         *)
IngestInit ==
    /\ stream \in Streams
    /\ batch_size \in 1..MaxBatch
    /\ run = 1
    /\ msg_i = 1
    /\ batch = <<>>
    /\ inserted_count = 0
    /\ table = EmptyTable
    /\ ingest_pc = "loop"
    /\ accepted_log = <<>>
    /\ batch_writes = <<>>
    /\ storage_failed = FALSE
    /\ run_start_table = EmptyTable
    /\ first_run_table = EmptyTable
    /\ rerun_same = FALSE
    /\ ScanIdle
    /\ ExtractIdle
    /\ PriceIdle
    /\ AnalyzerIdle

Looping == ingest_pc = "loop" /\ msg_i <= Len(stream)

(* the tuples the inner loop appends for each message of Messages that    *)
(* can be iterated                                                         *)
Accepted ==
    [m \in Messages |-> IF EmbedsRaises(m) THEN <<>> ELSE AcceptedOf(EmbedItems(m))]

(* the for statement over embeds raises TypeError; nothing in              *)
(* process_file catches it, and the call ends there                        *)
IterateRaises ==
    /\ EmbedsRaises(stream[msg_i])
    /\ ingest_pc' = "crashed"
    /\ UNCHANGED <<stream, batch_size, run, msg_i, batch, inserted_count, table,
                   accepted_log, batch_writes, storage_failed, run_start_table,
                   first_run_table, rerun_same>>

(* a pass of the message loop that appends new_records, the tuples of the  *)
(* accepted embeds of the message, and leaves the batch below batch_size   *)
AppendOnly(new_records) ==
    /\ ~EmbedsRaises(stream[msg_i])
    /\ ~BatchFull(batch \o new_records, batch_size)
    /\ batch' = batch \o new_records
    /\ accepted_log' = accepted_log \o new_records
    /\ msg_i' = msg_i + 1
    /\ UNCHANGED <<stream, batch_size, run, inserted_count, table, ingest_pc,
                   batch_writes, storage_failed, run_start_table,
                   first_run_table, rerun_same>>

(* a pass of the message loop with len(batch) >= batch_size:               *)
(* executemany, commit, inserted_count += len(batch), batch = []           *)
WriteBatch(new_records) ==
    /\ ~EmbedsRaises(stream[msg_i])
    /\ BatchFull(batch \o new_records, batch_size)
    /\ LET w == ExecuteMany(table, batch \o new_records, 0)
       IN  /\ w.failed_at = 0
           /\ table' = w.table
           /\ inserted_count' =
                 CountCommitted(inserted_count, batch \o new_records, w.failed_at)
    /\ batch' = BatchAfterWrite(batch \o new_records)
    /\ batch_writes' = Append(batch_writes,
                              [records |-> batch \o new_records, failed_at |-> 0])
    /\ accepted_log' = accepted_log \o new_records
    /\ msg_i' = msg_i + 1
    /\ UNCHANGED <<stream, batch_size, run, ingest_pc, storage_failed,
                   run_start_table, first_run_table, rerun_same>>

(* the same pass when executemany raises sqlite3.Error: rollback, and      *)
(* batch = [] in the finally clause                                        *)
WriteBatchFails(new_records) ==
    /\ ~EmbedsRaises(stream[msg_i])
    /\ BatchFull(batch \o new_records, batch_size)
    /\ \E fail_at \in 0..Len(batch \o new_records) :
          LET w == ExecuteMany(table, batch \o new_records, fail_at)
          IN  /\ w.failed_at # 0
              /\ table' = Rollback(table, w.table)
              /\ inserted_count' =
                    CountCommitted(inserted_count, batch \o new_records, w.failed_at)
              /\ batch_writes' = Append(batch_writes,
                                        [records |-> batch \o new_records,
                                         failed_at |-> w.failed_at])
    /\ batch' = BatchAfterWrite(batch \o new_records)
    /\ storage_failed' = TRUE
    /\ accepted_log' = accepted_log \o new_records
    /\ msg_i' = msg_i + 1
    /\ UNCHANGED <<stream, batch_size, run, ingest_pc,
                   run_start_table, first_run_table, rerun_same>>

(* the body of  for message in message_stream  for a message whose         *)
(* accepted embeds give new_records                                        *)
MessagePass(new_records) ==
    \/ IterateRaises
    \/ AppendOnly(new_records)
    \/ WriteBatch(new_records)
    \/ WriteBatchFails(new_records)

ProcessMessage ==
    /\ Looping
    /\ MessagePass(Accepted[stream[msg_i]])
    /\ UNCHANGED <<scan_vars, extract_vars, price_vars, analyzer_vars>>

AtStreamEnd == ingest_pc = "loop" /\ msg_i > Len(stream)

(* the final flush: if batch: executemany, commit, inserted_count +=       *)
(* len(batch); then conn.close()                                           *)
FinalFlush ==
    /\ AtStreamEnd
    /\ IF batch = <<>>
       THEN UNCHANGED <<table, inserted_count, batch_writes>>
       ELSE /\ LET w == ExecuteMany(table, batch, 0)
               IN  /\ w.failed_at = 0
                   /\ table' = w.table
                   /\ inserted_count' =
                         CountCommitted(inserted_count, batch, w.failed_at)
            /\ batch_writes' = Append(batch_writes, [records |-> batch, failed_at |-> 0])
    /\ ingest_pc' = "done"
    /\ UNCHANGED <<stream, batch_size, run, msg_i, batch, accepted_log,
                   storage_failed, run_start_table, first_run_table, rerun_same>>
    /\ UNCHANGED <<scan_vars, extract_vars, price_vars, analyzer_vars>>

(* the final flush when executemany raises sqlite3.Error: the error is     *)
(* logged, and conn.close() drops the open transaction                     *)
FinalFlushFails ==
    /\ AtStreamEnd
    /\ batch # <<>>
    /\ \E fail_at \in 0..Len(batch) :
          LET w == ExecuteMany(table, batch, fail_at)
          IN  /\ w.failed_at # 0
              /\ table' = Close(table, w.table)
              /\ inserted_count' =
                    CountCommitted(inserted_count, batch, w.failed_at)
              /\ batch_writes' = Append(batch_writes,
                                        [records |-> batch, failed_at |-> w.failed_at])
    /\ storage_failed' = TRUE
    /\ ingest_pc' = "done"
    /\ UNCHANGED <<stream, batch_size, run, msg_i, batch,
                   accepted_log, run_start_table, first_run_table, rerun_same>>
    /\ UNCHANGED <<scan_vars, extract_vars, price_vars, analyzer_vars>>

RunOver == ingest_pc \in {"done", "crashed"}

(* process_file is called again on the database the first call left *)
StartSecondRun ==
    /\ run = 1
    /\ RunOver
    /\ \E d \in SecondDocs(stream) :
          /\ stream' = d
          /\ rerun_same' = (d = stream)
    /\ run' = 2
    /\ msg_i' = 1
    /\ batch' = <<>>
    /\ inserted_count' = 0
    /\ ingest_pc' = "loop"
    /\ accepted_log' = <<>>
    /\ batch_writes' = <<>>
    /\ run_start_table' = table
    /\ first_run_table' = table
    /\ UNCHANGED <<batch_size, table, storage_failed>>
    /\ UNCHANGED <<scan_vars, extract_vars, price_vars, analyzer_vars>>

IngestNext ==
    \/ ProcessMessage
    \/ FinalFlush
    \/ FinalFlushFails
    \/ StartSecondRun

SpecIngest == IngestInit /\ [][IngestNext]_vars

-----------------------------------------------------------------------------
(* Properties of process_file *)

RECURSIVE SubmittedRecords(_)
(* the records handed to executemany by the writes, in order *)
SubmittedRecords(writes) ==
    IF writes = <<>> THEN <<>>
    ELSE SubmittedRecords(SubSeq(writes, 1, Len(writes) - 1))
             \o writes[Len(writes)].records

RECURSIVE CommittedRecords(_)
(* the records of the writes that were committed, in order *)
CommittedRecords(writes) ==
    IF writes = <<>> THEN <<>>
    ELSE CommittedRecords(SubSeq(writes, 1, Len(writes) - 1))
             \o (IF writes[Len(writes)].failed_at = 0
                 THEN writes[Len(writes)].records ELSE <<>>)

RECURSIVE Replay(_, _)
(* the table t after the records are upserted one by one *)
Replay(t, records) ==
    IF records = <<>> THEN t
    ELSE Replay(InsertOrReplace(t, Head(records)), Tail(records))

NoBatchFailed == \A k \in 1..Len(batch_writes) : batch_writes[k].failed_at = 0

UniqueAuctionIds(t) ==
    \A r1 \in t.rows : \A r2 \in t.rows :
        r1.cols.auction_id = r2.cols.auction_id => r1 = r2

(* the record of the log that was parsed last among those with this id *)
LastParsed(log, aid) ==
    log[Greatest({k \in 1..Len(log) : log[k].auction_id = aid})]

(* C6: running process_file twice over the same document, with no storage *)
(* failure in either run, leaves the stored records, keyed by auction_id,  *)
(* the same in content and in count as after the first run; no auction_id  *)
(* is ever held by more than one stored row.  The content is the 19        *)
(* inserted columns: the replaced rows get new id values.                  *)
C6_ReingestIdempotent ==
    /\ UniqueAuctionIds(table)
    /\ (run = 2 /\ RunOver /\ rerun_same /\ ~storage_failed) =>
          /\ Content(table) = Content(first_run_table)
          /\ Cardinality(table.rows) = Cardinality(first_run_table.rows)

(* a second run over the same document has ended: two auctions are stored, *)
(* more records were accepted than there are rows, and every row has been  *)
(* replaced by an equal one under a new id                                 *)
C6_Witness ==
    /\ run = 2
    /\ ingest_pc = "done"
    /\ rerun_same
    /\ ~storage_failed
    /\ Cardinality(table.rows) = 2
    /\ Len(accepted_log) > 2
    /\ table.rows \cap first_run_table.rows = {}

(* C7: when several accepted embeds carry the same auction id, in one      *)
(* document, across batches or across runs, and no batch fails, the record *)
(* stored for that id after the ingestion is the one parsed last; while   *)
(* the run goes on, it is the last one of those written so far.            *)
C7_LatestWriteWins ==
    NoBatchFailed =>
        LET log == IF ingest_pc = "done" THEN accepted_log
                   ELSE SubmittedRecords(batch_writes)
        IN  \A k \in 1..Len(log) :
                /\ log[k].auction_id \in AuctionIds(table)
                /\ RowOf(table, log[k].auction_id).cols
                       = StoreRow(LastParsed(log, log[k].auction_id))

(* a second run over the reversed document has ended: auction 12 was       *)
(* accepted twice in it, in two batches, and the row the first run left    *)
(* for it has been replaced by a different record                          *)
C7_Witness ==
    /\ run = 2
    /\ ingest_pc = "done"
    /\ NoBatchFailed
    /\ Len(batch_writes) >= 2
    /\ \E j \in 1..Len(accepted_log) : \E k \in 1..Len(accepted_log) :
          /\ j < k
          /\ accepted_log[j].auction_id = accepted_log[k].auction_id
          /\ accepted_log[j] # accepted_log[k]
          /\ \E r \in first_run_table.rows :
                /\ r.cols = StoreRow(accepted_log[j])
                /\ r.cols \notin Content(table)

(* a step in which an executemany call raised *)
WriteFailed ==
    /\ Len(batch_writes') = Len(batch_writes) + 1
    /\ batch_writes'[Len(batch_writes')].failed_at # 0

C9_EveryRecordSubmittedOnce ==
    /\ ingest_pc = "done" => SubmittedRecords(batch_writes) = accepted_log
    /\ ingest_pc \in {"loop", "crashed"} =>
           SubmittedRecords(batch_writes) \o batch = accepted_log

(* the run has finished with a full batch written in the loop and a        *)
(* partial batch, smaller than batch_size, written by the final flush      *)
C9_Witness ==
    /\ ingest_pc = "done"
    /\ Len(batch_writes) >= 2
    /\ batch # <<>>
    /\ Len(batch) < batch_size
    /\ batch_writes[Len(batch_writes)].records = batch
    /\ batch_writes[Len(batch_writes)].failed_at = 0

(* C10: a message or embed of unexpected shape is skipped and never stops  *)
(* the messages after it from being processed and their records from       *)
(* being written: when a call of process_file has ended, every message of  *)
(* the stream has been processed and every accepted record submitted.      *)
(* An embeds value that is a number ends the call with a TypeError.        *)
C10_AsClaimed ==
    RunOver =>
        /\ msg_i = Len(stream) + 1
        /\ SubmittedRecords(batch_writes) = accepted_log

(* the writes made inside the message loop: all of them, but for the      *)
(* final flush, which is the last write of a finished run that had a       *)
(* batch left                                                              *)
LoopWrites ==
    IF ingest_pc = "done" /\ batch # <<>>
    THEN SubSeq(batch_writes, 1, Len(batch_writes) - 1)
    ELSE batch_writes

(* the most records one message of Messages adds to the batch *)
MaxPerMessage == Greatest({Len(Accepted[m]) : m \in Messages})

(* C11 as stated: every batch written before the end of the stream holds  *)
(* exactly batch_size records.  The threshold is tested once per message,  *)
(* so the batch that a message with several accepted embeds completes      *)
(* holds more.                                                             *)
C11_AsClaimed ==
    \A k \in 1..Len(LoopWrites) : Len(LoopWrites[k].records) = batch_size

(* C11: every batch written before the end of the stream holds at least   *)
(* batch_size records: the fewer than batch_size records pending before    *)
(* the message that completed it and all the records of that message;      *)
(* only the batch of the final flush is smaller.                           *)
C11_BatchesReachThreshold ==
    /\ \A k \in 1..Len(LoopWrites) :
          /\ Len(LoopWrites[k].records) >= batch_size
          /\ Len(LoopWrites[k].records) < batch_size + MaxPerMessage
    /\ ingest_pc \in {"loop", "done", "crashed"} => Len(batch) < batch_size

(* a finished run wrote, inside the loop, a batch larger than batch_size   *)
(* and, in the final flush, a batch smaller than batch_size                *)
C11_Witness ==
    /\ ingest_pc = "done"
    /\ batch # <<>>
    /\ Len(batch) < batch_size
    /\ \E k \in 1..Len(LoopWrites) : Len(LoopWrites[k].records) > batch_size

(* a step of the extraction fails for a sold embed: an entry of fields    *)
(* that is not an object, or an author that is not an object               *)
HasBrokenPart(e) ==
    /\ HasSoldTitle(e)
    /\ \/ /\ IsList(DictGet(e, KeyFields))
          /\ \E i \in 1..Len(DictGet(e, KeyFields)[2]) :
                ~IsDict(DictGet(e, KeyFields)[2][i])
       \/ /\ Truthy(DictGet(e, KeyAuthor))
          /\ ~IsDict(DictGet(e, KeyAuthor))

(* C12: extract_auction_data never raises: it returns None or a complete  *)
(* record with all 19 keys; when a step of the extraction fails (a field   *)
(* entry that is not an object, an author that is not an object) the       *)
(* whole embed is skipped.                                                 *)
C12_NoneOrCompleteRecord ==
    Returned =>
        /\ \/ result = PyNone
           \/ (IsRecord(result) /\ DOMAIN result[2] = RecordKeys)
        /\ HasBrokenPart(embed) => result = PyNone

(* a sold embed with an auction id and a species whose fields hold a      *)
(* number: fld.get raises inside the try block, and None is returned       *)
C12_Witness ==
    /\ Returned
    /\ embed = MakeEmbed(PyStr(TxtTitleSold), PyList(<<PyInt(3)>>),
                         PyDict(<< <<KeyName, PyStr(TxtAsh)>> >>), PyStr(TxtTime))
    /\ TryBody(embed) = PyRaise
    /\ result = PyNone

-----------------------------------------------------------------------------
(* src/mod6/app.py: get_price_recommendation                               *)
(*                                                                         *)
(* A float is a decimal fixed-point number here: the integer x stands for  *)
(* x / Micro.  The prices of the model keep every value the function       *)
(* computes below 2147 in magnitude, so that the products and quotients    *)
(* below stay inside the 32-bit integers of the model checker.  An int     *)
(* of the program is an integer of the model.                              *)

Micro == 1000000

Fx(n) == n * Micro

Abs(a) == IF a < 0 THEN -a ELSE a

Sgn(a) == IF a < 0 THEN -1 ELSE 1

(* the exact product of two fixed-point numbers a, b >= 0, computed on     *)
(* their thousands: <<whole micro-units, remainder in 0 .. Micro - 1>>     *)
MulParts(a, b) ==
    LET ah == a \div 1000
        al == a % 1000
        bh == b \div 1000
        bl == b % 1000
        t1 == ah * bl
        t2 == al * bh
        low == ((t1 % 1000) + (t2 % 1000)) * 1000 + al * bl
    IN  <<ah * bh + (t1 \div 1000) + (t2 \div 1000) + (low \div Micro),
          low % Micro>>

MulNat(a, b) ==
    LET p == MulParts(a, b)
    IN  p[1] + (IF 2 * p[2] >= Micro THEN 1 ELSE 0)

(* a * b on floats *)
FMul(a, b) == Sgn(a) * Sgn(b) * MulNat(Abs(a), Abs(b))

RECURSIVE DivDigits(_, _, _, _)
(* long division: k more decimal digits of r / b after the quotient q *)
DivDigits(q, r, b, k) ==
    IF k = 0 THEN (IF 2 * r >= b THEN q + 1 ELSE q)
    ELSE DivDigits(10 * q + ((10 * r) \div b), (10 * r) % b, b, k - 1)

(* a / b as a fixed-point number, for a >= 0 and b > 0 of one scale *)
DivNat(a, b) == DivDigits(a \div b, a % b, b, 6)

(* a / b on floats *)
FDiv(a, b) == Sgn(a) * Sgn(b) * DivNat(Abs(a), Abs(b))

(* a float divided by the int k > 0 *)
DivInt(a, k) == Sgn(a) * ((Abs(a) + (k \div 2)) \div k)

(* k * k <= v on fixed-point numbers, exactly *)
SquareAtMost(k, v) ==
    LET p == MulParts(k, k)
    IN  p[1] < v \/ (p[1] = v /\ p[2] = 0)

RECURSIVE SqrtBetween(_, _, _)
(* the largest k in lo .. hi - 1 with k * k <= v *)
SqrtBetween(v, lo, hi) ==
    IF hi - lo <= 1 THEN lo
    ELSE LET mid == (lo + hi) \div 2
         IN  IF SquareAtMost(mid, v) THEN SqrtBetween(v, mid, hi)
             ELSE SqrtBetween(v, lo, mid)

(* the square root of a float in 0 .. 2147 *)
FSqrt(v) == SqrtBetween(v, 0, 46341000)

RECURSIVE ExpTerms(_, _, _)
(* the series of exp(z) from its k-th term on, term = z^(k-1) / (k-1)! *)
ExpTerms(z, term, k) ==
    IF term = 0 THEN 0
    ELSE term + ExpTerms(z, DivInt(MulNat(term, z), k), k + 1)

(* math.exp(z) for z >= 0 *)
FExp(z) == ExpTerms(z, Micro, 1)

(* math.log(2.0) = 0.6931471805599453 *)
Ln2 == 693147

(* round(x, d) with unit = Micro / 10^d: to the nearest multiple of the    *)
(* unit, a tie to the even one; the result counts units                    *)
RoundHalfEven(x, unit) ==
    LET q == x \div unit
        f == x % unit
    IN  IF 2 * f > unit THEN q + 1
        ELSE IF 2 * f < unit THEN q
        ELSE IF q % 2 = 0 THEN q ELSE q + 1

(* int(round(x)) *)
IntRound(x) == RoundHalfEven(x, Micro)

(* round(x, 2), in hundredths *)
Round2(x) == RoundHalfEven(x, 10000)

RECURSIVE SumSeq(_)
SumSeq(s) == IF s = <<>> THEN 0 ELSE s[1] + SumSeq(Tail(s))

RECURSIVE InsertSorted(_, _)
InsertSorted(x, s) ==
    IF s = <<>> THEN <<x>>
    ELSE IF x <= s[1] THEN <<x>> \o s
    ELSE <<s[1]>> \o InsertSorted(x, Tail(s))

RECURSIVE Sorted(_)
(* sorted(data) *)
Sorted(data) ==
    IF data = <<>> THEN <<>> ELSE InsertSorted(data[1], Sorted(Tail(data)))

(* statistics.quantiles(data, n=4)[i - 1], method 'exclusive':             *)
(*   m = ld + 1; j = i * m // n, clamped to 1 .. ld - 1;                   *)
(*   delta = i * m - j * n;                                                *)
(*   (data[j - 1] * (n - delta) + data[j] * delta) / n                     *)
Quartile(data, i) ==
    LET srt == Sorted(data)
        ld == Len(srt)
        m == ld + 1
        j0 == (i * m) \div 4
        j == IF j0 < 1 THEN 1 ELSE IF j0 > ld - 1 THEN ld - 1 ELSE j0
        delta == i * m - j * 4
    IN  (srt[j] * (4 - delta) + srt[j + 1] * delta) * (Micro \div 4)

(* statistics.median(data) *)
Median(data) ==
    LET srt == Sorted(data)
        n == Len(srt)
    IN  IF n % 2 = 1 THEN Fx(srt[(n + 1) \div 2])
        ELSE (srt[n \div 2] + srt[n \div 2 + 1]) * (Micro \div 2)

(* statistics.stdev(data): the square root of the exact sample variance   *)
(*   (n * sum(x^2) - sum(x)^2) / (n * (n - 1))                             *)
Stdev(data) ==
    LET n == Len(data)
        sx == SumSeq(data)
        sxx == SumSeq([i \in 1..n |-> data[i] * data[i]])
    IN  FSqrt(DivNat(n * sxx - sx * sx, n * (n - 1)))

(* tuning constants, as floats *)
MAX_DEV_PERCENT == 150000

MIN_DEV_PERCENT == 30000

MAX_MULTIPLIER == 2000000

MAX_TREND_PCT == 250000

RECENT_WINDOW == 20

(* int(p) accepts an int, and a str that spells one; the strs of the model *)
(* are digits only or hold no digit at all                                 *)
IsIntegerText(t) == t # <<>> /\ \A i \in 1..Len(t) : t[i] \in Digits

(* int(p) raises ValueError *)
IntRaises(p) == p[1] = "str" /\ ~IsIntegerText(p[2])

IntOf(p) == IF p[1] = "int" THEN p[2] ELSE TextToInt(p[2])

IsNotNone(p) == p # PyNone

(* nums = [int(p) for p in chron_prices if p is not None] *)
Nums(prices) ==
    LET kept == SelectSeq(prices, IsNotNone)
    IN  [i \in 1..Len(kept) |-> IntOf(kept[i])]

NumsRaises(prices) ==
    \E i \in 1..Len(prices) : IsNotNone(prices[i]) /\ IntRaises(prices[i])

(* a variant that filters the sorted prices *)
CleanedChronOfSorted(nums) ==
    IF Len(nums) >= 4
    THEN LET sorted == Sorted(nums)
             q1 == Quartile(sorted, 1)
             q3 == Quartile(sorted, 3)
             iqr == q3 - q1
             lower == q1 - ((3 * iqr) \div 2)
             upper == q3 + ((3 * iqr) \div 2)
             potential_cleaned ==
                 SelectSeq(sorted, LAMBDA p : lower <= Fx(p) /\ Fx(p) <= upper)
         IN  IF Len(potential_cleaned) >= 2 THEN potential_cleaned ELSE nums
    ELSE nums

(* the outlier filter: quartiles by statistics.quantiles, fences at 1.5    *)
(* times the interquartile range, the filtered list kept when it has two   *)
(* prices or more                                                          *)
CleanedChron(nums) ==
    IF Len(nums) >= 4
    THEN LET q1 == Quartile(nums, 1)
             q3 == Quartile(nums, 3)
             iqr == q3 - q1
             lower == q1 - ((3 * iqr) \div 2)
             upper == q3 + ((3 * iqr) \div 2)
             potential_cleaned ==
                 SelectSeq(nums, LAMBDA p : lower <= Fx(p) /\ Fx(p) <= upper)
         IN  IF Len(potential_cleaned) >= 2 THEN potential_cleaned ELSE nums
    ELSE nums

(* a variant of lines 67-81 without the cap of line 81 *)
SpreadUncapped(median, stdev) ==
    IF median <= 0
    THEN LET base_dev == Max(Max(Fx(1), stdev), Fx(5))
         IN  [conservative |-> Max(Fx(1), median - base_dev),
              aggressive |-> median + base_dev]
    ELSE LET rel_stdev == FDiv(stdev, median)
             pct == Max(MIN_DEV_PERCENT, Min(rel_stdev, MAX_DEV_PERCENT))
             conservative0 == FMul(median, Micro - pct)
             aggressive0 == FMul(median, Micro + pct)
             min_abs_floor == Max(Fx(1), FMul(20000, median))
         IN  [conservative |->
                  IF median - conservative0 < min_abs_floor
                  THEN Max(Fx(1), median - min_abs_floor)
                  ELSE conservative0,
              aggressive |->
                  IF aggressive0 - median < min_abs_floor
                  THEN median + min_abs_floor
                  ELSE aggressive0]

(* conservative and aggressive before the trend: lines 67-81 *)
Spread(median, stdev) ==
    IF median <= 0
    THEN LET base_dev == Max(Max(Fx(1), stdev), Fx(5))
         IN  [conservative |-> Max(Fx(1), median - base_dev),
              aggressive |-> median + base_dev]
    ELSE LET rel_stdev == FDiv(stdev, median)
             pct == Max(MIN_DEV_PERCENT, Min(rel_stdev, MAX_DEV_PERCENT))
             conservative0 == FMul(median, Micro - pct)
             aggressive0 == FMul(median, Micro + pct)
             min_abs_floor == Max(Fx(1), FMul(20000, median))
             conservative ==
                 IF median - conservative0 < min_abs_floor
                 THEN Max(Fx(1), median - min_abs_floor)
                 ELSE conservative0
             aggressive1 ==
                 IF aggressive0 - median < min_abs_floor
                 THEN median + min_abs_floor
                 ELSE aggressive0
         IN  [conservative |-> conservative,
              aggressive |-> Min(aggressive1, FMul(median, MAX_MULTIPLIER))]

(* weights = [math.exp(alpha * i) for i in x], alpha = log(2) / max(1, m-1) *)
Weights(m) ==
    LET alpha == DivInt(Ln2, Max(1, m - 1))
    IN  [i \in 1..m |-> FExp(alpha * (i - 1))]

(* a variant that tests the trend against MAX_TREND_PCT *)
DirectionAgainstCap(trend_pct) ==
    IF trend_pct > MAX_TREND_PCT THEN "up"
    ELSE IF trend_pct < -MAX_TREND_PCT THEN "down"
    ELSE "flat"

(* "up" if trend_pct > 1e-4 else ("down" if trend_pct < -1e-4 else "flat") *)
Direction(trend_pct) ==
    IF trend_pct > 100 THEN "up"
    ELSE IF trend_pct < -100 THEN "down"
    ELSE "flat"

(* the weighted least-squares slope of y over 0 .. m - 1 and the clamped   *)
(* relative trend: lines 85-99                                             *)
Trend(y, median) ==
    LET m == Len(y)
        weights == Weights(m)
        w_sum == SumSeq(weights)
        x_mean == DivNat(SumSeq([i \in 1..m |-> weights[i] * (i - 1)]), w_sum)
        y_mean == FDiv(SumSeq([i \in 1..m |-> weights[i] * y[i]]), w_sum)
        num == SumSeq([i \in 1..m |->
                   FMul(FMul(weights[i], Fx(i - 1) - x_mean), Fx(y[i]) - y_mean)])
        den == SumSeq([i \in 1..m |->
                   FMul(weights[i],
                        FMul(Fx(i - 1) - x_mean, Fx(i - 1) - x_mean))])
        slope == IF den # 0 THEN FDiv(num, den) ELSE 0
        recent_window == Min(RECENT_WINDOW, m)
        raw == IF median # 0 THEN FDiv(slope * recent_window, median) ELSE 0
        trend_pct == Max(-MAX_TREND_PCT, Min(MAX_TREND_PCT, raw))
    IN  [slope |-> slope, trend_pct |-> trend_pct,
         direction |-> Direction(trend_pct), n |-> m]

(* trend_info when m < 6 *)
NoTrend(m) == [slope |-> 0, trend_pct |-> 0, direction |-> "flat", n |-> m]

(* a variant that fits the trend on any two prices or more *)
HasTrendAlways(m) == m >= 2

(* if m >= 6 *)
HasTrend(m) == m >= 6

(* the trend adjustment of the range: lines 100-106 *)
ApplyTrend(spread, trend_pct, median) ==
    IF trend_pct > 0
    THEN [conservative |-> spread.conservative,
          aggressive |-> Min(FMul(spread.aggressive, Micro + trend_pct),
                             FMul(median, MAX_MULTIPLIER))]
    ELSE IF trend_pct < 0
    THEN LET conservative ==
                 Max(Fx(1), FMul(spread.conservative, Micro + trend_pct))
         IN  [conservative |-> conservative,
              aggressive |->
                  Max(FMul(spread.aggressive, Micro + trend_pct), conservative)]
    ELSE spread

(* a variant without the clamp to conservative_bid *)
AggressiveBidUnclamped(conservative_bid, aggressive) == IntRound(aggressive)

(* aggressive_bid = max(conservative_bid, int(round(aggressive))) *)
AggressiveBid(conservative_bid, aggressive) ==
    Max(conservative_bid, IntRound(aggressive))

(* a variant that accepts a single price *)
TooFewOnlyEmpty(n) == n < 1

(* if n < 2 *)
TooFew(n) == n < 2

FailNoSales ==
    [success |-> FALSE, message |-> "No past sales found for these criteria."]

FailNotEnough ==
    [success |-> FALSE,
     message |-> "Not enough numeric sales for a reliable recommendation."]

(* lines 50-120 on nums; trended tells whether lines 84-106 are run *)
Payload(nums, trended) ==
    LET n == Len(nums)
        cleaned_chron == CleanedChron(nums)
        m == Len(cleaned_chron)
        median == Median(cleaned_chron)
        stdev == IF m > 1 THEN Stdev(cleaned_chron) ELSE 0
        spread == Spread(median, stdev)
        trend_info ==
            IF trended /\ HasTrend(m) THEN Trend(cleaned_chron, median)
            ELSE NoTrend(m)
        range ==
            IF trended /\ HasTrend(m)
            THEN ApplyTrend(spread, trend_info.trend_pct, median)
            ELSE spread
        conservative_bid == Max(1, IntRound(range.conservative))
    IN  [success |-> TRUE,
         count |-> m,
         original_count |-> n,
         median |-> IntRound(median),
         stdev |-> Round2(stdev),
         conservative_bid |-> conservative_bid,
         aggressive_bid |-> AggressiveBid(conservative_bid, range.aggressive),
         trend |-> trend_info]

(* the outcome of a call that the ValueError of int(p) leaves *)
RaisedValueError == [exception |-> "ValueError"]

(* the value returned, or the exception int(p) raises in line 45 *)
get_price_recommendation(prices) ==
    IF prices = <<>> THEN FailNoSales
    ELSE IF NumsRaises(prices) THEN RaisedValueError
    ELSE IF TooFew(Len(Nums(prices))) THEN FailNotEnough
    ELSE Payload(Nums(prices), TRUE)

-----------------------------------------------------------------------------
(* The price lists of the model *)

(* the longest list whose entries are drawn freely *)
MaxPrices == 4

(* the longest list of the trend histories below *)
MaxTrendLen == 7

TxtNotANumber == <<"n", "/", "a">>

PriceEntries ==
    {PyNone, PyStr(TxtNotANumber),
     PyInt(-9), PyInt(0), PyInt(1), PyInt(12), PyInt(40)}

ShortLists == SeqsUpTo(PriceEntries, MaxPrices)

(* histories long enough for the trend: a first price and the changes from *)
(* each sale to the next, optionally ending in one far higher sale         *)
TrendBases == {100, -10}

TrendSteps == {-5, 0, 5}

OutlierJump == 400

RECURSIVE Walk(_, _)
Walk(first, steps) ==
    IF steps = <<>> THEN <<first>>
    ELSE <<first>> \o Walk(first + steps[1], Tail(steps))

EndHigh(prices, jump) ==
    [i \in 1..Len(prices) |->
        IF i = Len(prices) THEN prices[i] + jump ELSE prices[i]]

AsPrices(ints) == [i \in 1..Len(ints) |-> PyInt(ints[i])]

LongLists ==
    {AsPrices(EndHigh(Walk(first, steps), jump)) :
        first \in TrendBases,
        steps \in UNION {[1..(k - 1) -> TrendSteps] : k \in 6..MaxTrendLen},
        jump \in {0, OutlierJump}}

(* histories that rise from each sale to the next, by small amounts against *)
(* their level                                                             *)
RisingPrices == 150..158

RECURSIVE Ascending(_)
Ascending(S) ==
    IF S = {} THEN <<>> ELSE <<Least(S)>> \o Ascending(S \ {Least(S)})

RisingLists ==
    {AsPrices(Ascending(S)) :
        S \in {T \in SUBSET RisingPrices : Cardinality(T) \in 6..MaxTrendLen}}

ExampleLists ==
    {AsPrices(<<10, 20, 30, 40>>),
     AsPrices(<<100, 105, 110, 115, 120, 125, 130>>)}

PriceLists == ShortLists \cup LongLists \cup RisingLists \cup ExampleLists

RecommendInit ==
    /\ chron_prices \in PriceLists
    /\ recommendation = <<"null">>
    /\ price_pc = "call"
    /\ ScanIdle
    /\ ExtractIdle
    /\ IngestIdle
    /\ AnalyzerIdle

(* one call of get_price_recommendation(chron_prices) *)
RecommendCall ==
    /\ price_pc = "call"
    /\ recommendation' = get_price_recommendation(chron_prices)
    /\ price_pc' = IF recommendation' = RaisedValueError THEN "raised" ELSE "returned"
    /\ UNCHANGED <<chron_prices, scan_vars, extract_vars, ingest_vars,
                   analyzer_vars>>

RecommendNext == RecommendCall

SpecRecommend == RecommendInit /\ [][RecommendNext]_vars

-----------------------------------------------------------------------------
(* Properties of get_price_recommendation (SpecRecommend) *)

Called == price_pc # "call"

IsPayload(r) == "success" \in DOMAIN r /\ r.success

IsFailure(r) == "success" \in DOMAIN r /\ ~r.success

IsPrice(p) == p[1] = "int"

AllPrices(prices) == \A i \in 1..Len(prices) : IsPrice(prices[i])

PricesOrNone(prices) ==
    \A i \in 1..Len(prices) : IsPrice(prices[i]) \/ prices[i] = PyNone

NonNull(prices) == Len(SelectSeq(prices, IsNotNone))

BidsOrdered(r) ==
    /\ {"conservative_bid", "aggressive_bid"} \subseteq DOMAIN r
    /\ r.conservative_bid >= 1
    /\ r.conservative_bid <= r.aggressive_bid

(* C13 as stated: for every non-empty list of numeric prices the result    *)
(* has conservative_bid >= 1 and conservative_bid <= aggressive_bid.       *)
C13_AsClaimed ==
    (Called /\ chron_prices # <<>> /\ AllPrices(chron_prices))
        => BidsOrdered(recommendation)

(* C13: for every list of prices and nulls that holds two prices or more,  *)
(* the result is a recommendation with conservative_bid >= 1 and           *)
(* conservative_bid <= aggressive_bid; and every recommendation returned   *)
(* has its bids in this order.                                             *)
C13_BidsOrdered ==
    /\ (Called /\ PricesOrNone(chron_prices) /\ NonNull(chron_prices) >= 2)
           => IsPayload(recommendation) /\ BidsOrdered(recommendation)
    /\ (Called /\ IsPayload(recommendation)) => BidsOrdered(recommendation)

(* a history with a negative median, a price dropped by the outlier filter *)
(* and a trend applied, where the rounded aggressive value lies below the  *)
(* conservative bid                                                        *)
C13_Witness ==
    /\ price_pc = "returned"
    /\ IsPayload(recommendation)
    /\ recommendation.median < 0
    /\ recommendation.count < recommendation.original_count
    /\ recommendation.trend.direction # "flat"
    /\ recommendation.aggressive_bid = recommendation.conservative_bid

(* C14: when the list holds fewer than two non-null prices (it is empty,   *)
(* holds one price, or holds nulls only), the result has success = FALSE   *)
(* and a message, and no conservative_bid, aggressive_bid, median or       *)
(* trend field.                                                            *)
C14_TooFewSamplesFail ==
    (Called /\ PricesOrNone(chron_prices) /\ NonNull(chron_prices) < 2)
        => /\ price_pc = "returned"
           /\ DOMAIN recommendation = {"success", "message"}
           /\ recommendation.success = FALSE
           /\ recommendation.message \in
                  {FailNoSales.message, FailNotEnough.message}

(* one price among nulls: the list is not empty, one sample is left *)
C14_Witness ==
    /\ price_pc = "returned"
    /\ PricesOrNone(chron_prices)
    /\ Len(chron_prices) >= 3
    /\ NonNull(chron_prices) = 1
    /\ recommendation = FailNotEnough

(* C15 as stated: get_price_recommendation never raises; for every list,   *)
(* a list with a non-null entry that is not numeric included, it returns   *)
(* a structured failure or a recommendation.                               *)
C15_AsClaimed ==
    Called => /\ price_pc = "returned"
              /\ IsFailure(recommendation) \/ IsPayload(recommendation)

IntsOf(prices) == [i \in 1..Len(prices) |-> prices[i][2]]

StrictlyIncreasing(ints) == \A i \in 1..(Len(ints) - 1) : ints[i] < ints[i + 1]

(* at least 6 strictly increasing positive prices, oldest first *)
RisingHistory ==
    /\ Called
    /\ AllPrices(chron_prices)
    /\ Len(chron_prices) >= 6
    /\ StrictlyIncreasing(IntsOf(chron_prices))
    /\ chron_prices[1][2] > 0

(* the aggressive_bid of the same input with lines 84-106 left out *)
UntrendedAggressiveBid == Payload(Nums(chron_prices), FALSE).aggressive_bid

(* C16 as stated: at least 6 strictly increasing positive prices give      *)
(* trend direction "up" and an aggressive_bid not below the one computed   *)
(* without the trend adjustment.                                           *)
C16_AsClaimed ==
    RisingHistory
        => /\ recommendation.trend.direction = "up"
           /\ recommendation.aggressive_bid >= UntrendedAggressiveBid

(* C16: for at least 6 strictly increasing positive prices the             *)
(* aggressive_bid is not below the one computed without the trend          *)
(* adjustment; the direction is "up" when 6 prices or more are left after  *)
(* the outlier filter and the median is below 59000 (the relative trend is *)
(* then above 0.0001), and "flat" with no slope when fewer than 6 are      *)
(* left.                                                                   *)
C16_UpWhenSixRetained ==
    RisingHistory
        => /\ recommendation.aggressive_bid >= UntrendedAggressiveBid
           /\ (recommendation.count >= 6 /\ recommendation.median < 59000)
                  => recommendation.trend.direction = "up"
           /\ recommendation.count < 6
                  => recommendation.trend = NoTrend(recommendation.count)

(* the history 100, 105, ..., 130: direction "up", and the trend raised    *)
(* the aggressive bid                                                      *)
C16_Witness ==
    /\ price_pc = "returned"
    /\ chron_prices = AsPrices(<<100, 105, 110, 115, 120, 125, 130>>)
    /\ recommendation.count = 7
    /\ recommendation.trend.direction = "up"
    /\ recommendation.aggressive_bid > UntrendedAggressiveBid

Retained == CleanedChron(Nums(chron_prices))

(* 2 to 5 prices are left after the outlier filter, all of them positive *)
FewPositiveRetained ==
    /\ Called
    /\ IsPayload(recommendation)
    /\ recommendation.count \in 2..5
    /\ \A i \in 1..Len(Retained) : Retained[i] > 0

(* C17: with 2 to 5 retained positive prices no trend is applied (slope 0, *)
(* trend_pct 0, direction "flat") and the bids bracket the median of the   *)
(* retained prices, and the median field of the result as well:           *)
(* conservative_bid <= median <= aggressive_bid <= 2 x median.             *)
C17_NoTrendBracketsMedian ==
    FewPositiveRetained
        => /\ recommendation.trend = NoTrend(recommendation.count)
           /\ Fx(recommendation.conservative_bid) <= Median(Retained)
           /\ Median(Retained) <= Fx(recommendation.aggressive_bid)
           /\ Fx(recommendation.aggressive_bid) <= 2 * Median(Retained)
           /\ recommendation.conservative_bid <= recommendation.median
           /\ recommendation.median <= recommendation.aggressive_bid
           /\ recommendation.aggressive_bid <= 2 * recommendation.median

(* the history 10, 20, 30, 40: all 4 retained, median 25, no trend, and    *)
(* conservative_bid < 25 < aggressive_bid <= 50                            *)
C17_Witness ==
    /\ price_pc = "returned"
    /\ chron_prices = AsPrices(<<10, 20, 30, 40>>)
    /\ recommendation.count = 4
    /\ Median(Retained) = Fx(25)
    /\ recommendation.trend = NoTrend(4)
    /\ recommendation.conservative_bid < 25
    /\ recommendation.aggressive_bid > 25
    /\ recommendation.aggressive_bid <= 50

-----------------------------------------------------------------------------
(* Properties of stream_messages_from_file, continued *)

AllButLast(s) == SubSeq(s, 1, Len(s) - 1)

(* the file ends inside the last element of the array, whose closing brace *)
(* never arrives; the elements before it are well-formed                   *)
EndsInsideElement ==
    /\ doc_shape = "cut_off"
    /\ doc_elems # <<>>
    /\ doc_elems[Len(doc_elems)] = ElemTruncated
    /\ \A i \in 1..(Len(doc_elems) - 1) :
           WellFormed(doc_elems[i]) /\ ~BraceInString(doc_elems[i])

(* C18: the scan of every document ends; the step that meets the end of    *)
(* input yields nothing; and when the input ends inside an element, that   *)
(* element is left in the buffer and is not among the objects yielded,     *)
(* which are the elements before it.                                       *)
C18_TerminatesAndDiscardsTail ==
    /\ <>ScanDone
    /\ [][scan_pc' = "done" => yielded' = yielded]_vars
    /\ [](ScanDone => file_pos = Len(Doc))
    /\ []((ScanDone /\ EndsInsideElement)
             => /\ yielded = ParsedElems(AllButLast(doc_elems))
                /\ obj_buffer = ElemTruncated
                /\ brace_level = 1)

(* a scan that ended with two objects yielded and a third, unfinished one  *)
(* left in the buffer                                                      *)
C18_Witness ==
    /\ ScanDone
    /\ EndsInsideElement
    /\ Len(doc_elems) = 3
    /\ Len(yielded) = 2
    /\ obj_buffer = ElemTruncated

-----------------------------------------------------------------------------
(* AuctionAnalyzer.recommend_price (src/mod6/recommend_fixed.py)            *)
(*                                                                         *)
(* A row of the auctions table is a record of the columns the query reads: *)
(* species (text), shiny (0 or 1), iv_total and winning_bid (None or a     *)
(* number).  filters is a record of the keys the calls of the model use;   *)
(* a key that is absent from the dict holds None, which filters.get()      *)
(* cannot tell from absence.  The keys gender, max_total_iv, min_level,    *)
(* max_level and nature are absent in every call of the model.             *)

(* SQL TRIM(x) removes spaces only *)
SqlTrim(s) ==
    LET keep == {i \in 1..Len(s) : s[i] # " "}
    IN  IF keep = {} THEN <<>>
        ELSE SubSeq(s, CHOOSE a \in keep : \A b \in keep : a <= b,
                       CHOOSE a \in keep : \A b \in keep : a >= b)

(* SQL LOWER(x) folds the ASCII letters only *)
SqlLower(s) ==
    [i \in 1..Len(s) |-> IF s[i] = EAcuteUpper THEN s[i] ELSE ToLower(s[i])]

(* LOWER(TRIM(x)) *)
SqlKey(s) == SqlLower(SqlTrim(s))

(* the exception an operation of the try block raised *)
Raised(kind, message) == [exception |-> kind, message |-> message]

IsRaised(r) == "exception" \in DOMAIN r

(* if not filters.get('species'): raise ValueError('Species is required') *)
SpeciesMissing(f) == ~Truthy(f.species)

(* float(v) raises ValueError for a str that spells no number; the strs of *)
(* the model are digits only or hold no digit at all                       *)
FloatRaises(v) == v[1] = "str" /\ ~IsIntegerText(v[2])

(* str(filters.get('shiny', 'any')).lower() in the accepted spellings; the *)
(* shiny values of the model are None and strs                             *)
ShinyYes == {<<"1">>, <<"y", "e", "s">>, <<"y">>, <<"t", "r", "u", "e">>,
             <<"s", "h", "i", "n", "y">>}

ShinyNo == {<<"0">>, <<"n", "o">>, <<"n">>, <<"f", "a", "l", "s", "e">>,
            <<"n", "o", "r", "m", "a", "l">>}

ShinyText(f) == IF f.shiny[1] = "str" THEN LowerText(f.shiny[2]) ELSE <<>>

(* build_query raises instead of returning the query *)
BuildQueryRaises(f) ==
    \/ SpeciesMissing(f)
    \/ f.min_total_iv # PyNone /\ FloatRaises(f.min_total_iv)

(* the ValueError of float() names the value after this text *)
BuildQueryError(f) ==
    IF SpeciesMissing(f)
    THEN Raised("ValueError", "Species is required")
    ELSE Raised("ValueError", "could not convert string to float")

(* the WHERE clause build_query assembles, applied to one row; a comparison *)
(* with NULL is not true                                                    *)
Where(f, row) ==
    /\ SqlKey(row.species) = SqlKey(f.species[2])
    /\ ShinyText(f) \in ShinyYes => row.shiny = 1
    /\ ShinyText(f) \in ShinyNo => row.shiny = 0
    /\ f.min_total_iv # PyNone
          => /\ row.iv_total # PyNone
             /\ row.iv_total[2] >= IntOf(f.min_total_iv)
    /\ row.winning_bid # PyNone
    /\ row.winning_bid[2] > 0

RECURSIVE SelectWhere(_, _)
SelectWhere(f, rows) ==
    IF rows = <<>> THEN <<>>
    ELSE IF Where(f, rows[1]) THEN <<rows[1]>> \o SelectWhere(f, Tail(rows))
    ELSE SelectWhere(f, Tail(rows))

RECURSIVE OrderByWinningBid(_)
(* ORDER BY winning_bid ASC; rows of equal bid come in table order *)
OrderByWinningBid(rows) ==
    IF rows = <<>> THEN <<>>
    ELSE LET init == OrderByWinningBid(SubSeq(rows, 1, Len(rows) - 1))
             r == rows[Len(rows)]
             k == Cardinality({i \in 1..Len(init) :
                                 init[i].winning_bid[2] <= r.winning_bid[2]})
         IN  SubSeq(init, 1, k) \o <<r>> \o SubSeq(init, k + 1, Len(init))

(* recommend_price asks for limit=2000 *)
QueryLimit == 2000

(* the first n items of s: s[:n] *)
Take(s, n) == SubSeq(s, 1, Min(n, Len(s)))

(* get_auction_data(filters, limit) when build_query returns *)
get_auction_data(rows, f, limit) ==
    Take(OrderByWinningBid(SelectWhere(f, rows)), limit)

(* [x for x in wb if abs(x - mean) <= 2 * stdev], with mean = S/n and       *)
(* stdev^2 = (n*Q - S^2) / (n*(n-1)) for S the sum and Q the sum of squares *)
SumOfSquares(wb) == SumSeq([i \in 1..Len(wb) |-> wb[i] * wb[i]])

SpreadTimesN(wb) == Len(wb) * SumOfSquares(wb) - SumSeq(wb) * SumSeq(wb)

WithinTwoStdev(x, wb) ==
    LET n == Len(wb)
        d == n * x - SumSeq(wb)
    IN  d * d * (n - 1) <= 4 * n * SpreadTimesN(wb)

RECURSIVE KeepWithin(_, _)
KeepWithin(s, wb) ==
    IF s = <<>> THEN <<>>
    ELSE IF WithinTwoStdev(s[1], wb) THEN <<s[1]>> \o KeepWithin(Tail(s), wb)
    ELSE KeepWithin(Tail(s), wb)

(* int(0.7 * len(wb)) *)
SeventyPercent(n) == (7 * n) \div 10

(* lines 110-117: drop the bids further than two deviations from the mean, *)
(* if enough of them remain                                                *)
WithoutOutliers(wb) ==
    IF Len(wb) > 3 /\ SpreadTimesN(wb) > 0
    THEN LET filtered == KeepWithin(wb, wb)
         IN  IF Len(filtered) >= Max(3, SeventyPercent(Len(wb)))
             THEN filtered ELSE wb
    ELSE wb

(* int(statistics.median(wb)) of a sorted list of positive ints *)
IntMedian(wb) ==
    LET n == Len(wb)
    IN  IF n % 2 = 1 THEN wb[(n + 1) \div 2]
        ELSE (wb[n \div 2] + wb[n \div 2 + 1]) \div 2

(* calculate_statistics(winning_bids) for a list that is not empty.  The   *)
(* quartiles are never added: int(q) of the list statistics.quantiles      *)
(* returns raises TypeError, which lines 129-130 swallow.                  *)
calculate_statistics(winning_bids) ==
    LET wb == WithoutOutliers(Sorted(winning_bids))
    IN  [count |-> Len(wb),
         min |-> wb[1],
         max |-> wb[Len(wb)],
         mean |-> SumSeq(wb) \div Len(wb),
         median |-> IntMedian(wb)]

(* int(0.9 * median) *)
NinetyPercent(median) == (9 * median) \div 10

(* lines 144-149; stats holds neither 'q3' nor 'iqr' *)
Rec(stats, strat) ==
    IF strat = "aggressive" THEN stats.median
    ELSE IF strat = "conservative" THEN Max(1, NinetyPercent(stats.median))
    ELSE stats.median

Failure(message) ==
    [success |-> FALSE, message |-> message, recommendation |-> PyNone]

(* sample_auctions: auctions[:10] *)
SampleSize == 10

(* the try block of recommend_price: the dict it returns or the exception  *)
(* it raises                                                               *)
RecommendTry(rows, f, strat) ==
    IF BuildQueryRaises(f) THEN BuildQueryError(f)
    ELSE LET auctions == get_auction_data(rows, f, QueryLimit)
             with_bid == SelectSeq(auctions, LAMBDA a : Truthy(a.winning_bid))
             winning_bids == [i \in 1..Len(with_bid) |-> with_bid[i].winning_bid[2]]
         IN  IF auctions = <<>>
             THEN Failure("No historical auction data found for the specified criteria")
             ELSE IF winning_bids = <<>>
             THEN Failure("No completed auctions found for the specified criteria")
             ELSE LET stats == calculate_statistics(winning_bids)
                  IN  [success |-> TRUE,
                       recommendation |-> PyInt(Rec(stats, strat)),
                       statistics |-> stats,
                       sample_auctions |-> Take(auctions, SampleSize),
                       strategy |-> strat,
                       filters |-> f]

(* a variant of the handler that lets the exception through *)
ExceptExceptionReraises(e) == e

(* except Exception as e: the failure dict with str(e) in its message *)
ExceptException(e) ==
    Failure("Error calculating recommendation: " \o e.message)

recommend_price(rows, f, strat) ==
    LET r == RecommendTry(rows, f, strat)
    IN  IF IsRaised(r) THEN ExceptException(r) ELSE r

(* ---- the calls of the model ---- *)
MaxRows == 2

TxtPikachu == <<"P", "i", "k", "a", "c", "h", "u">>

TxtPikachuLoose == <<" ", "p", "i", "k", "a", "C", "H", "U", " ">>

TxtMew == <<"M", "e", "w">>

TxtNonexistent == <<"N", "o", "n", "e", "x", "i", "s", "t", "e", "n", "t">>

TxtHigh == <<"h", "i", "g", "h">>

Row(species, shiny, iv_total, winning_bid) ==
    [species |-> species, shiny |-> shiny, iv_total |-> iv_total,
     winning_bid |-> winning_bid]

(* sold and unsold auctions, with and without a total IV, one of them with *)
(* a total IV above 100, which extract_auction_data stores as it finds it  *)
StoredRows ==
    {Row(TxtPikachu, 0, PyInt(84), PyInt(35)),
     Row(TxtPikachu, 1, PyInt(95), PyInt(120)),
     Row(TxtPikachu, 0, PyNone, PyInt(20)),
     Row(TxtPikachu, 0, PyInt(88), PyNone),
     Row(TxtPikachu, 0, PyInt(88), PyInt(0)),
     Row(TxtPikachu, 0, PyInt(150), PyInt(10)),
     Row(TxtPikachuLoose, 0, PyInt(90), PyInt(1)),
     Row(TxtMew, 1, PyInt(97), PyInt(250))}

SoldFor(bids) ==
    [i \in 1..Len(bids) |-> Row(TxtPikachu, 0, PyInt(90), PyInt(bids[i]))]

(* tables long enough for the outlier filter of calculate_statistics *)
LongTables ==
    {SoldFor(<<40, 10, 30, 20>>),
     SoldFor(<<10, 10, 70, 10, 10, 10>>),
     SoldFor(<<10, 10, 10, 70, 70, 10, 10>>),
     SoldFor(<<31, 35, 33, 36, 32, 34, 90, 35>>)}

Tables == SeqsUpTo(StoredRows, MaxRows) \cup LongTables

Filters(species, shiny, min_total_iv) ==
    [species |-> species, shiny |-> shiny, min_total_iv |-> min_total_iv]

FilterDicts ==
    {Filters(s, sh, iv) :
        s \in {PyNone, PyStr(<<>>), PyStr(TxtPikachu), PyStr(TxtPikachuLoose),
               PyStr(TxtNonexistent)},
        sh \in {PyNone, PyStr(<<"1">>), PyStr(<<"N", "o">>)},
        iv \in {PyNone, PyInt(80), PyInt(150), PyStr(TxtHigh)}}

Strategies == {"conservative", "balanced", "aggressive"}

AnalyzerInit ==
    /\ db_rows \in Tables
    /\ filters \in FilterDicts
    /\ strategy \in Strategies
    /\ analysis = <<"null">>
    /\ analyzer_pc = "call"
    /\ ScanIdle
    /\ ExtractIdle
    /\ IngestIdle
    /\ PriceIdle

(* one call of analyzer.recommend_price(filters, strategy) *)
RecommendPriceCall ==
    /\ analyzer_pc = "call"
    /\ analysis' = recommend_price(db_rows, filters, strategy)
    /\ analyzer_pc' = IF IsRaised(analysis') THEN "raised" ELSE "returned"
    /\ UNCHANGED <<db_rows, filters, strategy, scan_vars, extract_vars,
                   ingest_vars, price_vars>>

AnalyzerNext == RecommendPriceCall

SpecAnalyzer == AnalyzerInit /\ [][AnalyzerNext]_vars

-----------------------------------------------------------------------------
(* Properties of AuctionAnalyzer.recommend_price (SpecAnalyzer) *)

AnalyzerCalled == analyzer_pc # "call" /\ analyzer_pc # "idle"

IsAnalyzerFailure(r) ==
    /\ ~IsRaised(r)
    /\ r.success = FALSE
    /\ r.recommendation = PyNone

(* no stored auction has the species asked for *)
SpeciesUnknown ==
    /\ ~SpeciesMissing(filters)
    /\ \A i \in 1..Len(db_rows) :
          SqlKey(db_rows[i].species) # SqlKey(filters.species[2])

(* no stored auction with a positive winning bid passes every filter *)
MatchesNothing ==
    /\ ~BuildQueryRaises(filters)
    /\ \A i \in 1..Len(db_rows) : ~Where(filters, db_rows[i])

(* every stored total IV is a percentage *)
TotalsArePercentages ==
    \A i \in 1..Len(db_rows) :
        db_rows[i].iv_total # PyNone => db_rows[i].iv_total[2] <= 100

UnsatisfiableIv ==
    /\ ~SpeciesMissing(filters)
    /\ filters.min_total_iv = PyInt(150)
    /\ TotalsArePercentages

(* C19: recommend_price never raises, and it returns success = False with  *)
(* recommendation = None when no stored auction matches the filters, when  *)
(* min_total_iv = 150 is asked of a table of percentages, and when the     *)
(* filters are empty or hold no species.                                   *)
C19_NeverRaisesAndFails ==
    /\ analyzer_pc # "raised"
    /\ AnalyzerCalled
          => /\ ~IsRaised(analysis)
             /\ (SpeciesUnknown \/ MatchesNothing \/ UnsatisfiableIv
                   \/ SpeciesMissing(filters))
                   => IsAnalyzerFailure(analysis)

(* the call with empty filters has returned the failure dict, its message  *)
(* carrying the text of the ValueError build_query raised                  *)
C19_Witness ==
    /\ analyzer_pc = "returned"
    /\ filters = Filters(PyNone, PyNone, PyNone)
    /\ db_rows # <<>>
    /\ IsAnalyzerFailure(analysis)
    /\ analysis.message = "Error calculating recommendation: Species is required"

(* reachable states that the claim's cases are told from *)
C19_UnsatisfiableReached ==
    /\ analyzer_pc = "returned"
    /\ UnsatisfiableIv
    /\ \E i \in 1..Len(db_rows) :
          SqlKey(db_rows[i].species) = SqlKey(filters.species[2])

C19_SuccessReached ==
    /\ analyzer_pc = "returned"
    /\ analysis.success

-----------------------------------------------------------------------------
(* The buffer of stream_messages_from_file during the scan (SpecScan) *)

(* the number of characters of the file the for loop has been through *)
Consumed == file_pos - Len(chunk) + (chunk_i - 1)

ReadSoFar == SubSeq(Doc, 1, Consumed)

RECURSIVE ElemStart(_)
(* the number of characters of the document before element i of the array *)
ElemStart(i) ==
    IF i = 1 THEN Len(ShapePrefix(doc_shape)) + Len(ShapeMarker(doc_shape))
    ELSE ElemStart(i - 1) + Len(doc_elems[i - 1]) + 1

(* the elements of the array the scan has entered *)
ElemsEntered == {i \in 1..Len(doc_elems) : ElemStart(i) < Consumed}

(* the length of the array element being read: the last one entered *)
CurrentElemLen ==
    IF ElemsEntered = {} THEN 0 ELSE Len(doc_elems[Greatest(ElemsEntered)])

(* before the marker the buffer is the last 21 characters read, or all of *)
(* them if fewer were read                                                *)
C20_WindowBeforeMarker ==
    (scan_pc # "idle" /\ ~in_messages_array)
        => /\ Len(obj_buffer) <= 21
           /\ obj_buffer = LastN(ReadSoFar, 21)

(* inside the array the buffer is empty whenever the brace depth is 0 *)
C20_EmptyAtDepthZero ==
    (in_messages_array /\ brace_level = 0) => obj_buffer = <<>>

(* inside the array the buffer is no longer than the element being read *)
C20_WithinCurrentElem ==
    in_messages_array => Len(obj_buffer) <= CurrentElemLen

(* C20: at every point of the scan the buffer holds at most one element's *)
(* text: before the marker it is a trailing window of at most 21          *)
(* characters, inside the array it is empty whenever the brace depth is   *)
(* 0, and it is never longer than the array element being read.           *)
C20_AsClaimed ==
    /\ C20_WindowBeforeMarker
    /\ C20_EmptyAtDepthZero
    /\ C20_WithinCurrentElem

(* the buffer has outgrown every element of a well-formed array *)
C20_BufferOutgrowsElements ==
    /\ in_messages_array
    /\ doc_shape = "plain"
    /\ \A i \in 1..Len(doc_elems) :
          WellFormed(doc_elems[i]) /\ Len(obj_buffer) > Len(doc_elems[i])
    /\ doc_elems # <<>>

-----------------------------------------------------------------------------
(* Where the objects stream_messages_from_file yields come from (SpecScan) *)

(* the parsed values of the well-formed elements of the array *)
ArrayObjects ==
    {json_loads(doc_elems[i]).val :
        i \in {j \in 1..Len(doc_elems) : WellFormed(doc_elems[j])}}

YieldedObjects == {yielded[i] : i \in 1..Len(yielded)}

(* the object of PrefixLong, which stands before the marker *)
ObjectBeforeMarker == json_loads(SubSeq(PrefixLong, 11, 19)).val

(* the object of TailObject, which stands after the closing bracket *)
ObjectAfterArray == json_loads(SubSeq(TailObject, 9, 15)).val

(* no object located before the marker is yielded *)
C21_NothingBeforeMarker ==
    /\ ~in_messages_array => yielded = <<>>
    /\ doc_shape = "prefix_object" => ObjectBeforeMarker \notin YieldedObjects

(* a document without the marker yields nothing *)
C21_NoMarkerNoObjects == doc_shape = "no_marker" => yielded = <<>>

(* no object located after the array's closing bracket is yielded *)
C21_NothingAfterArray ==
    doc_shape = "tail_object" => ObjectAfterArray \notin YieldedObjects

(* C21: every object yielded is a top-level element of the array that     *)
(* follows the marker: no object before the marker is yielded, no object  *)
(* after the array's closing bracket is yielded, and a document without   *)
(* the marker yields nothing.                                             *)
C21_AsClaimed ==
    /\ YieldedObjects \subseteq ArrayObjects
    /\ C21_NothingBeforeMarker
    /\ C21_NothingAfterArray
    /\ C21_NoMarkerNoObjects

(* the scan of a document with one array element has ended with two *)
(* objects yielded, the second of them the object after the array    *)
C21_TailObjectYielded ==
    /\ ScanDone
    /\ doc_shape = "tail_object"
    /\ doc_elems = <<ElemSimple>>
    /\ yielded = <<json_loads(ElemSimple).val, ObjectAfterArray>>

-----------------------------------------------------------------------------
(* Braces inside string values (SpecScan) *)

(* the character the loop is at stands inside a quoted string of the *)
(* object being buffered                                             *)
AtBraceInString ==
    /\ scan_pc = "scan"
    /\ in_messages_array
    /\ brace_level > 0
    /\ InsideString(obj_buffer)
    /\ Ch \in {"{", "}"}

(* every brace read inside the array moves the depth, a brace between two *)
(* quotes as one outside them                                             *)
DepthFollowsEveryBrace ==
    (scan_pc = "scan" /\ in_messages_array)
        => /\ Ch = "{" => brace_level' = brace_level + 1
           /\ (Ch = "}" /\ brace_level > 0) => brace_level' = brace_level - 1

ObjectOpenInString == json_loads(ElemOpenInString).val

(* the array begins with the element that has an unmatched opening brace  *)
(* inside its string value, and the elements after it have braces that    *)
(* match and stand outside strings                                        *)
OpenInStringFirst ==
    /\ doc_shape # "no_marker"
    /\ doc_elems # <<>>
    /\ doc_elems[1] = ElemOpenInString
    /\ \A i \in 2..Len(doc_elems) : doc_elems[i] \in {ElemSimple, ElemNested}

(* the closing brace of the first element has been read *)
PastFirstElem == Consumed >= ElemStart(1) + Len(doc_elems[1])

(* C22: the brace depth changes on a brace inside a quoted string exactly  *)
(* as on a structural brace; so a well-formed element with an unmatched    *)
(* opening brace inside a string value is not yielded when its closing     *)
(* brace is read, and the elements after it are absorbed into the same     *)
(* buffer.                                                                 *)
C22_StringBracesCount ==
    /\ [][DepthFollowsEveryBrace]_vars
    /\ [](WellFormed(ElemOpenInString) /\ ObjectOpenInString \notin YieldedObjects)
    /\ []((OpenInStringFirst /\ PastFirstElem)
             => /\ yielded = <<>>
                /\ brace_level > 0
                      => obj_buffer = SubSeq(Doc, ElemStart(1) + 1, Consumed))

(* the scan is inside the third element, and the buffer still begins with *)
(* the first                                                              *)
C22_Witness ==
    /\ OpenInStringFirst
    /\ Len(doc_elems) = 3
    /\ Consumed > ElemStart(3)
    /\ Consumed < ElemStart(3) + Len(doc_elems[3])
    /\ brace_level = 2
    /\ SubSeq(obj_buffer, 1, Len(ElemOpenInString)) = ElemOpenInString
    /\ Len(obj_buffer) > Len(doc_elems[1]) + Len(doc_elems[2])
    /\ yielded = <<>>

(* a brace between two quotes is being read *)
C22_BraceInStringRead == AtBraceInString /\ Ch = "{"

-----------------------------------------------------------------------------
(* The outlier step of get_price_recommendation (SpecRecommend) *)

RECURSIVE IsSubsequence(_, _)
(* s is t with some items left out, the others in their order *)
IsSubsequence(s, t) ==
    IF s = <<>> THEN TRUE
    ELSE IF t = <<>> THEN FALSE
    ELSE IF s[1] = t[1] THEN IsSubsequence(Tail(s), Tail(t))
    ELSE IsSubsequence(s, Tail(t))

(* the prices of nums between the fences Q1 - 1.5 IQR and Q3 + 1.5 IQR, *)
(* in the order of nums                                                 *)
PotentialCleaned(nums) ==
    LET q1 == Quartile(nums, 1)
        q3 == Quartile(nums, 3)
        lower == q1 - ((3 * (q3 - q1)) \div 2)
        upper == q3 + ((3 * (q3 - q1)) \div 2)
    IN  SelectSeq(nums, LAMBDA p : lower <= Fx(p) /\ Fx(p) <= upper)

(* the call got past int(p): every entry is a price or None *)
NumsRead == Called /\ ~NumsRaises(chron_prices)

(* C23: the cleaned list is an order-preserving subsequence of the        *)
(* non-null inputs, 2 <= count <= original_count on every success, and    *)
(* the cleaned list is the full list when the input has fewer than 4      *)
(* samples or the filter would retain fewer than 2 of them.               *)
C23_OutlierStepKeepsOrder ==
    NumsRead
        => /\ IsSubsequence(Retained, Nums(chron_prices))
           /\ IsPayload(recommendation)
                 => /\ recommendation.count = Len(Retained)
                    /\ recommendation.original_count = NonNull(chron_prices)
                    /\ 2 <= recommendation.count
                    /\ recommendation.count <= recommendation.original_count
           /\ (\/ Len(Nums(chron_prices)) < 4
               \/ Len(PotentialCleaned(Nums(chron_prices))) < 2)
                 => Retained = Nums(chron_prices)

(* a falling history with a late high price: the high price is dropped and *)
(* the others stay in their order, which is not the sorted one             *)
C23_Witness ==
    /\ price_pc = "returned"
    /\ IsPayload(recommendation)
    /\ recommendation.original_count = 6
    /\ recommendation.count = 5
    /\ Retained = AllButLast(Nums(chron_prices))
    /\ Retained[1] > Retained[2]
    /\ Retained # Sorted(Retained)

(* a list of three prices is returned whole *)
C23_ShortListKept ==
    /\ price_pc = "returned"
    /\ IsPayload(recommendation)
    /\ recommendation.original_count = 3
    /\ Retained = Nums(chron_prices)

-----------------------------------------------------------------------------
(* The cap of the aggressive bid (SpecRecommend) *)

(* a recommendation was returned and the median of the cleaned prices is *)
(* positive                                                              *)
PositiveMedian ==
    /\ Called
    /\ IsPayload(recommendation)
    /\ Median(Retained) > 0

(* C24: whenever the cleaned median is positive, aggressive_bid never     *)
(* exceeds 2 x median, before and after an upward or downward trend       *)
(* adjustment.                                                            *)
C24_AggressiveAtMostTwiceMedian ==
    PositiveMedian
        => /\ Fx(UntrendedAggressiveBid) <= 2 * Median(Retained)
           /\ Fx(recommendation.aggressive_bid) <= 2 * Median(Retained)

(* an upward trend has raised the aggressive bid, which stays under the cap *)
C24_Witness ==
    /\ PositiveMedian
    /\ recommendation.trend.direction = "up"
    /\ recommendation.aggressive_bid > UntrendedAggressiveBid
    /\ Fx(recommendation.aggressive_bid) <= 2 * Median(Retained)

(* a downward trend has lowered the aggressive bid *)
C24_DownwardReached ==
    /\ PositiveMedian
    /\ recommendation.trend.direction = "down"
    /\ recommendation.aggressive_bid < UntrendedAggressiveBid

(* the cap decides the bid: the median is 0.5 and the bid is 1 *)
C24_CapReached ==
    /\ PositiveMedian
    /\ 2 * Median(Retained) = Fx(1)
    /\ recommendation.aggressive_bid = 1

-----------------------------------------------------------------------------
(* The accepted-count of process_file (SpecIngest) *)

(* the step is a write of the current call, logged as its last write *)
WriteLogged == batch_writes' = Append(batch_writes, batch_writes'[Len(batch_writes')])

(* a step of the current call changes inserted_count only with a write   *)
(* that was committed, and then by the number of records of that write;  *)
(* a write that failed leaves it alone                                   *)
CountStep ==
    run' = run
        => /\ inserted_count' # inserted_count
                 => /\ Len(batch_writes') = Len(batch_writes) + 1
                    /\ WriteLogged
                    /\ batch_writes'[Len(batch_writes')].failed_at = 0
                    /\ inserted_count' = inserted_count
                         + Len(batch_writes'[Len(batch_writes')].records)
           /\ (/\ Len(batch_writes') = Len(batch_writes) + 1
               /\ batch_writes'[Len(batch_writes')].failed_at # 0)
                 => inserted_count' = inserted_count

(* C25: inserted_count equals, at every point of the run, the number of  *)
(* records in the batches whose commit succeeded: it grows only after a  *)
(* successful commit, by that batch's size, and the records of a failed  *)
(* batch are never counted.                                              *)
C25_CountIsCommittedRecords ==
    /\ [](ingest_pc # "idle" => inserted_count = Len(CommittedRecords(batch_writes)))
    /\ [][CountStep]_vars

(* a call has ended with a failed batch and a committed one: only the *)
(* records of the committed batch are counted                         *)
C25_Witness ==
    /\ ingest_pc = "done"
    /\ \E i \in 1..Len(batch_writes) : batch_writes[i].failed_at # 0
    /\ \E i \in 1..Len(batch_writes) : batch_writes[i].failed_at = 0
    /\ inserted_count > 0
    /\ inserted_count = Len(CommittedRecords(batch_writes))
    /\ inserted_count < Len(accepted_log)

-----------------------------------------------------------------------------
(* A closing brace at depth 0 (SpecScan) *)

(* the loop is at a closing brace inside the array with no object open *)
AtStrayClose ==
    /\ scan_pc = "scan"
    /\ in_messages_array
    /\ Ch = "}"
    /\ brace_level = 0

(* the step over such a brace changes neither depth nor buffer and yields *)
(* nothing                                                                *)
StrayCloseIgnored ==
    AtStrayClose => UNCHANGED <<brace_level, obj_buffer, yielded>>

(* the array holds well-formed elements without braces in strings and any *)
(* number of stray closing braces between them                            *)
OnlyStrayCloseAmongGood ==
    /\ OnlyArrayDocument
    /\ \A i \in 1..Len(doc_elems) :
          \/ doc_elems[i] = ElemStrayClose
          \/ WellFormed(doc_elems[i]) /\ ~BraceInString(doc_elems[i])

IsNotStrayClose(e) == e # ElemStrayClose

(* C26: the brace depth is never negative: a closing brace read at depth  *)
(* 0 inside the array is ignored, leaving depth and buffer unchanged and  *)
(* yielding nothing, so a stray closing brace between elements does not   *)
(* affect the elements that follow.                                       *)
C26_StrayCloseIgnored ==
    /\ [](brace_level >= 0)
    /\ [][StrayCloseIgnored]_vars
    /\ []((ScanDone /\ OnlyStrayCloseAmongGood)
             => yielded = ParsedElems(SelectSeq(doc_elems, IsNotStrayClose)))

(* a stray closing brace stood between two elements, and both were yielded *)
C26_Witness ==
    /\ ScanDone
    /\ doc_shape = "plain"
    /\ doc_elems = <<ElemSimple, ElemStrayClose, ElemNested>>
    /\ yielded = ParsedElems(<<ElemSimple, ElemNested>>)
    /\ brace_level = 0

(* the loop is at the stray closing brace, after the first element *)
C26_AtStrayCloseReached ==
    /\ AtStrayClose
    /\ doc_elems = <<ElemSimple, ElemStrayClose, ElemNested>>
    /\ Len(yielded) = 1

-----------------------------------------------------------------------------
(* The quartiles of calculate_statistics (SpecAnalyzer) *)

(* the winning bids recommend_price hands to calculate_statistics *)
WinningBids ==
    LET auctions == get_auction_data(db_rows, filters, QueryLimit)
    IN  [i \in 1..Len(auctions) |-> auctions[i].winning_bid[2]]

(* the bids that remain after the 2-standard-deviation filter *)
RemainingBids == WithoutOutliers(Sorted(WinningBids))

(* int() of quartile k of the sorted list wb by the inclusive method of *)
(* statistics.quantiles: the value at position k * (n - 1) / 4          *)
IntQuartileInclusive(wb, k) ==
    LET pos == k * (Len(wb) - 1)
        j == pos \div 4 + 1
        r == pos % 4
    IN  IF r = 0 THEN wb[j] ELSE (4 * wb[j] + r * (wb[j + 1] - wb[j])) \div 4

(* a recommendation was returned from at least 4 remaining bids *)
FourOrMoreRemain ==
    /\ analyzer_pc = "returned"
    /\ analysis.success
    /\ Len(RemainingBids) >= 4

(* C27 as claimed: with at least 4 bids left after the filter the          *)
(* statistics hold q1, q3 and iqr, strategy 'aggressive' returns the third *)
(* quartile and strategy 'conservative' returns max(1, median - 0.25 x     *)
(* iqr).                                                                   *)
C27_AsClaimed ==
    FourOrMoreRemain
        => LET q1 == IntQuartileInclusive(RemainingBids, 1)
               q3 == IntQuartileInclusive(RemainingBids, 3)
           IN  /\ {"q1", "q3", "iqr"} \subseteq DOMAIN analysis.statistics
               /\ strategy = "aggressive" => analysis.recommendation = PyInt(q3)
               /\ strategy = "conservative"
                     => analysis.recommendation
                          = PyInt(Max(1, analysis.statistics.median
                                           - (q3 - q1) \div 4))

(* what the code returns for such samples: no quartile among the       *)
(* statistics, the median for 'aggressive' and 90 percent of it for    *)
(* 'conservative'                                                      *)
C27_QuartilesNeverSet ==
    FourOrMoreRemain
        => /\ DOMAIN analysis.statistics = {"count", "min", "max", "mean", "median"}
           /\ analysis.statistics.count = Len(RemainingBids)
           /\ strategy = "aggressive"
                 => analysis.recommendation = PyInt(analysis.statistics.median)
           /\ strategy = "conservative"
                 => analysis.recommendation
                      = PyInt(Max(1, (9 * analysis.statistics.median) \div 10))

(* the bids 10, 20, 30, 40 with strategy 'aggressive': the median 25 is *)
(* returned, the third quartile is 32                                   *)
C27_MedianReturned ==
    /\ FourOrMoreRemain
    /\ RemainingBids = <<10, 20, 30, 40>>
    /\ strategy = "aggressive"
    /\ IntQuartileInclusive(RemainingBids, 3) = 32
    /\ analysis.recommendation = PyInt(25)

====
